---- MODULE Spec2Model ----
(***************************************************************************)
(* Model of the conversation vector store of claude-conversation-vectordb: *)
(* the chunker (chunk_conversation), the import into the collection        *)
(* (add_conversations), search, get_stats, reset and the reset command of  *)
(* the CLI (cmd_reset, cmd_import), of the importer of                      *)
(* conversation_downloader.py (import_from_json_export,                    *)
(* import_from_directory and _normalize_conversations), and of load and    *)
(* _extract_messages of ClaudeParser in                                    *)
(* chatgpt-claude-conversation-history.                                    *)
(*                                                                         *)
(* Text is modelled as a sequence of one-character strings, so formatting  *)
(* (the record id, the chunk text, lower/capitalize) is computed           *)
(* character by character.                                                 *)
(***************************************************************************)
EXTENDS Integers, Sequences, FiniteSets, Bags, TLC

VARIABLES
    argConversation,  \* chunk_conversation: the conversation argument
    argChunkSize,     \* chunk_conversation: the chunk_size argument
    argOverlap,       \* chunk_conversation: the overlap argument
    returned,         \* chunk_conversation: what the call produced
    db,               \* the collection persisted by the Chroma client at db_path
    store,            \* the ConversationVectorStore object of the running process
    last,             \* the last operation: its arguments, its result or exception
    now,              \* the clock datetime.now() reads, in seconds
    imported          \* the last call of the importer: arguments, result or exception

chunkVars == <<argConversation, argChunkSize, argOverlap, returned>>

storeVars == <<db, store, last>>

importVars == <<now, imported>>

vars == <<argConversation, argChunkSize, argOverlap, returned, db, store, last,
          now, imported>>

----------------------------------------------------------------------------
(* Bounds of the model *)

MaxMsgs == 7       \* messages per conversation in the chunker's inputs
MaxChunkSize == 4  \* largest chunk_size (and overlap) tried
MaxStoreMsgs == 4  \* messages of the longest conversation imported into the store
MaxResets == 2     \* collections re-created by reset in one behaviour
MaxResults == 2    \* largest n_results of a search
MaxBatchSize == 3  \* largest batch_size tried below the default
MaxFaultBatch == 1 \* last batch (from 0) in which a call is made to fail
MaxFiles == 3      \* files of the largest directory imported
MaxClock == 2      \* last instant of the importer's clock
MaxRuns == 2       \* runs of the import command in one behaviour

----------------------------------------------------------------------------
(* Defaults of the program *)

DefaultChunkSize == 3
DefaultOverlap == 1
DefaultBatchSize == 100

----------------------------------------------------------------------------
(* Text helpers: Python's str operations on sequences of characters *)

Digits == <<"0", "1", "2", "3", "4", "5", "6", "7", "8", "9">>

LowerLetters ==
    <<"a", "b", "c", "d", "e", "f", "g", "h", "i", "j", "k", "l", "m",
      "n", "o", "p", "q", "r", "s", "t", "u", "v", "w", "x", "y", "z">>

UpperLetters ==
    <<"A", "B", "C", "D", "E", "F", "G", "H", "I", "J", "K", "L", "M",
      "N", "O", "P", "Q", "R", "S", "T", "U", "V", "W", "X", "Y", "Z">>

Min(a, b) == IF a <= b THEN a ELSE b

Max(a, b) == IF a >= b THEN a ELSE b

\* str(k) of a natural number, as in an f-string
RECURSIVE Str(_)
Str(k) ==
    IF k < 10 THEN <<Digits[k + 1]>>
    ELSE Str(k \div 10) \o <<Digits[(k % 10) + 1]>>

LowerChar(c) ==
    IF \E j \in 1..26 : UpperLetters[j] = c
    THEN LowerLetters[CHOOSE j \in 1..26 : UpperLetters[j] = c]
    ELSE c

UpperChar(c) ==
    IF \E j \in 1..26 : LowerLetters[j] = c
    THEN UpperLetters[CHOOSE j \in 1..26 : LowerLetters[j] = c]
    ELSE c

\* str.lower()
Lower(s) == [j \in 1..Len(s) |-> LowerChar(s[j])]

\* str.capitalize(): first character upper-cased, the rest lower-cased
Capitalize(s) ==
    [j \in 1..Len(s) |-> IF j = 1 THEN UpperChar(s[j]) ELSE LowerChar(s[j])]

\* seq[lo:hi] for 0 <= lo and 0 <= hi (0-based, half-open, clamped)
Slice(s, lo, hi) == SubSeq(s, lo + 1, Min(hi, Len(s)))

\* sep.join(parts)
RECURSIVE Join(_, _)
Join(sep, parts) ==
    IF Len(parts) = 0 THEN <<>>
    ELSE IF Len(parts) = 1 THEN parts[1]
    ELSE parts[1] \o sep \o Join(sep, Tail(parts))

----------------------------------------------------------------------------
(* chunk_conversation *)

\* f"{role}: {content}" of one message
MessageText(msg) == Capitalize(msg.role) \o <<":", " ">> \o msg.content

\* the parts joined by a single newline
ChunkTextSingleNewline(chunk_messages) ==
    Join(<<"\n">>, [j \in 1..Len(chunk_messages) |-> MessageText(chunk_messages[j])])

\* "\n\n".join(chunk_text_parts)
ChunkText(chunk_messages) ==
    Join(<<"\n", "\n">>, [j \in 1..Len(chunk_messages) |-> MessageText(chunk_messages[j])])

\* MakeChunk with an inclusive end index (off by one)
MakeChunkInclusiveEnd(conversation, chunks, i, chunk_messages) ==
    [text |-> ChunkText(chunk_messages),
     conversation_id |-> conversation.id,
     conversation_title |-> conversation.title,
     created_at |-> conversation.created_at,
     chunk_index |-> Len(chunks),
     message_start_idx |-> i,
     message_end_idx |-> i + Len(chunk_messages) - 1,
     messages |-> chunk_messages]

\* the chunk dict built for the window starting at i
MakeChunk(conversation, chunks, i, chunk_messages) ==
    [text |-> ChunkText(chunk_messages),
     conversation_id |-> conversation.id,
     conversation_title |-> conversation.title,
     created_at |-> conversation.created_at,
     chunk_index |-> Len(chunks),
     message_start_idx |-> i,
     message_end_idx |-> i + Len(chunk_messages),
     messages |-> chunk_messages]

\* ChunkLoop without the break at the end of the messages
RECURSIVE ChunkLoopNoBreak(_, _, _, _, _)
ChunkLoopNoBreak(conversation, chunk_size, step, i, chunks) ==
    LET messages == conversation.messages
        chunk_messages == Slice(messages, i, i + chunk_size)
    IN  IF i >= Len(messages) THEN chunks
        ELSE IF Len(chunk_messages) = 0
        THEN ChunkLoopNoBreak(conversation, chunk_size, step, i + step, chunks)
        ELSE ChunkLoopNoBreak(conversation, chunk_size, step, i + step,
                 Append(chunks, MakeChunk(conversation, chunks, i, chunk_messages)))

\* ChunkLoop with the break tested by > instead of >=
RECURSIVE ChunkLoopStrictBreak(_, _, _, _, _)
ChunkLoopStrictBreak(conversation, chunk_size, step, i, chunks) ==
    LET messages == conversation.messages
        chunk_messages == Slice(messages, i, i + chunk_size)
    IN  IF i >= Len(messages) THEN chunks
        ELSE IF Len(chunk_messages) = 0
        THEN ChunkLoopStrictBreak(conversation, chunk_size, step, i + step, chunks)
        ELSE LET appended == Append(chunks, MakeChunk(conversation, chunks, i, chunk_messages))
             IN  IF i + chunk_size > Len(messages) THEN appended
                 ELSE ChunkLoopStrictBreak(conversation, chunk_size, step, i + step, appended)

\* the body of `for i in range(0, len(messages), step)` from index i on, step > 0
RECURSIVE ChunkLoop(_, _, _, _, _)
ChunkLoop(conversation, chunk_size, step, i, chunks) ==
    LET messages == conversation.messages
        chunk_messages == Slice(messages, i, i + chunk_size)
    IN  IF i >= Len(messages) THEN chunks
        ELSE IF Len(chunk_messages) = 0
        THEN ChunkLoop(conversation, chunk_size, step, i + step, chunks)
        ELSE LET appended == Append(chunks, MakeChunk(conversation, chunks, i, chunk_messages))
             IN  IF i + chunk_size >= Len(messages) THEN appended
                 ELSE ChunkLoop(conversation, chunk_size, step, i + step, appended)

\* chunk_conversation stepping by chunk_size + overlap
chunk_conversation_step_sum(conversation, chunk_size, overlap) ==
    LET step == chunk_size + overlap
    IN  IF step = 0 THEN [raised |-> "ValueError", chunks |-> <<>>]
        ELSE IF step < 0 THEN [raised |-> "none", chunks |-> <<>>]
        ELSE [raised |-> "none",
              chunks |-> ChunkLoop(conversation, chunk_size, step, 0, <<>>)]

\* chunk_conversation stepping by chunk_size, the overlap left out
chunk_conversation_no_overlap(conversation, chunk_size, overlap) ==
    LET step == chunk_size
    IN  IF chunk_size - overlap = 0 THEN [raised |-> "ValueError", chunks |-> <<>>]
        ELSE IF chunk_size - overlap < 0 THEN [raised |-> "none", chunks |-> <<>>]
        ELSE [raised |-> "none",
              chunks |-> ChunkLoop(conversation, chunk_size, step, 0, <<>>)]

\* chunk_conversation with a step of at least one
chunk_conversation_clamped_step(conversation, chunk_size, overlap) ==
    LET step == Max(1, chunk_size - overlap)
    IN  [raised |-> "none",
         chunks |-> ChunkLoop(conversation, chunk_size, step, 0, <<>>)]

\* chunk_conversation(conversation, chunk_size, overlap): range() raises
\* ValueError for a zero step and is empty for a negative one
chunk_conversation(conversation, chunk_size, overlap) ==
    LET step == chunk_size - overlap
    IN  IF step = 0 THEN [raised |-> "ValueError", chunks |-> <<>>]
        ELSE IF step < 0 THEN [raised |-> "none", chunks |-> <<>>]
        ELSE [raised |-> "none",
              chunks |-> ChunkLoop(conversation, chunk_size, step, 0, <<>>)]

----------------------------------------------------------------------------
(* Inputs: normalized conversations *)

Roles == << <<"u", "s", "e", "r">>, <<"a", "s", "s", "i", "s", "t", "a", "n", "t">> >>

\* message j (1-based) of the conversation of variant v: roles alternate
SampleMessage(v, j) ==
    [role |-> Roles[2 - (j % 2)],
     content |-> <<v>> \o Str(j),
     timestamp |-> <<"t">> \o Str(j)]

SampleConversation(id, n, v) ==
    [id |-> id,
     created_at |-> <<"2", "0", "2", "4">>,
     title |-> <<"T">> \o id,
     messages |-> [j \in 1..n |-> SampleMessage(v, j)]]

\* roles outside user and assistant that the importer hands on as they are
OtherRoles ==
    << <<"s", "y", "s", "t", "e", "m">>, <<"u", "n", "k", "n", "o", "w", "n">>,
       <<"t", "o", "o", "l", "R", "e", "s", "u", "l", "t">>, <<>> >>

\* a conversation of n messages whose roles go through OtherRoles
RoleConversation(id, n) ==
    [id |-> id,
     created_at |-> <<"2", "0", "2", "4">>,
     title |-> <<"T">> \o id,
     messages |-> [j \in 1..n |-> [role |-> OtherRoles[((j - 1) % 4) + 1],
                                   content |-> <<"x">> \o Str(j),
                                   timestamp |-> <<"t">> \o Str(j)]]]

NotCalled == [raised |-> "not called", chunks |-> <<>>]

----------------------------------------------------------------------------------------------------------------------------------------
(* json.dumps of a chunk's message list *)

\* the characters outside ASCII of the model's texts and the four hex digits
\* json.dumps (ensure_ascii) writes for them after \u
UnicodeEscape == [c \in {"é"} |-> <<"0", "0", "e", "9">>]

\* a string written between quotes with no escape at all
JsonEscapeCharNone(c) == <<c>>

\* the escape json.dumps writes for one character of a string
JsonEscapeChar(c) ==
    IF c = "\"" THEN <<"\\", "\"">>
    ELSE IF c = "\\" THEN <<"\\", "\\">>
    ELSE IF c = "\n" THEN <<"\\", "n">>
    ELSE IF c = "\t" THEN <<"\\", "t">>
    ELSE IF c = "\r" THEN <<"\\", "r">>
    ELSE IF c = "\f" THEN <<"\\", "f">>
    ELSE IF c \in DOMAIN UnicodeEscape THEN <<"\\", "u">> \o UnicodeEscape[c]
    ELSE <<c>>

RECURSIVE JsonEscape(_)
JsonEscape(s) ==
    IF Len(s) = 0 THEN <<>> ELSE JsonEscapeChar(Head(s)) \o JsonEscape(Tail(s))

JsonString(s) == <<"\"">> \o JsonEscape(s) \o <<"\"">>

\* one message dict: the keys in the order the importer inserts them
JsonMessage(msg) ==
    <<"{">> \o JsonString(<<"r", "o", "l", "e">>) \o <<":", " ">> \o JsonString(msg.role)
    \o <<",", " ">> \o JsonString(<<"c", "o", "n", "t", "e", "n", "t">>)
    \o <<":", " ">> \o JsonString(msg.content)
    \o <<",", " ">> \o JsonString(<<"t", "i", "m", "e", "s", "t", "a", "m", "p">>)
    \o <<":", " ">> \o JsonString(msg.timestamp)
    \o <<"}">>

\* json.dumps(chunk['messages'])
JsonDumps(messages) ==
    <<"[">> \o Join(<<",", " ">>, [j \in 1..Len(messages) |-> JsonMessage(messages[j])])
    \o <<"]">>

\* json.loads, for the documents json.dumps writes above: a list of objects
\* whose values are strings.  Each parser returns [ok, value, next], next being
\* the index after what it read.

ParseFail == [ok |-> FALSE, value |-> <<>>, next |-> 0]

\* the characters that may follow a backslash in a string (besides u)
JsonEscapes == {"\"", "\\", "/", "n", "t", "r", "f"}

\* the control characters json.loads does not accept unescaped in a string
ControlChars == {"\n", "\t", "\r", "\f"}

\* the character an escape sequence \c stands for
JsonUnescapeChar(c) ==
    IF c = "n" THEN "\n"
    ELSE IF c = "t" THEN "\t"
    ELSE IF c = "r" THEN "\r"
    ELSE IF c = "f" THEN "\f"
    ELSE c

\* the character \uXXXX stands for, for the hex digits of UnicodeEscape
UnicodeUnescape(hex) == CHOOSE c \in DOMAIN UnicodeEscape : UnicodeEscape[c] = hex

\* the characters of a string up to its closing quote, from index i on
RECURSIVE ParseStringBody(_, _, _)
ParseStringBody(s, i, acc) ==
    IF i > Len(s) THEN ParseFail
    ELSE IF s[i] = "\"" THEN [ok |-> TRUE, value |-> acc, next |-> i + 1]
    ELSE IF s[i] = "\\"
    THEN IF i + 1 > Len(s) THEN ParseFail
         ELSE IF s[i + 1] = "u"
         THEN IF i + 5 > Len(s)
                 \/ \A c \in DOMAIN UnicodeEscape : UnicodeEscape[c] # SubSeq(s, i + 2, i + 5)
              THEN ParseFail
              ELSE ParseStringBody(s, i + 6,
                       Append(acc, UnicodeUnescape(SubSeq(s, i + 2, i + 5))))
         ELSE IF s[i + 1] \notin JsonEscapes THEN ParseFail
         ELSE ParseStringBody(s, i + 2, Append(acc, JsonUnescapeChar(s[i + 1])))
    ELSE IF s[i] \in ControlChars THEN ParseFail
    ELSE ParseStringBody(s, i + 1, Append(acc, s[i]))

ParseString(s, i) ==
    IF i > Len(s) \/ s[i] # "\"" THEN ParseFail ELSE ParseStringBody(s, i + 1, <<>>)

RECURSIVE SkipSpaces(_, _)
SkipSpaces(s, i) == IF i <= Len(s) /\ s[i] = " " THEN SkipSpaces(s, i + 1) ELSE i

\* the "key": "value" pairs of an object up to its closing brace
RECURSIVE ParseMembers(_, _, _)
ParseMembers(s, i, acc) ==
    LET key == ParseString(s, SkipSpaces(s, i))
        colon == SkipSpaces(s, key.next)
        val == ParseString(s, SkipSpaces(s, colon + 1))
        after == SkipSpaces(s, val.next)
    IN  IF ~key.ok \/ colon > Len(s) \/ s[colon] # ":" THEN ParseFail
        ELSE IF ~val.ok \/ after > Len(s) THEN ParseFail
        ELSE IF s[after] = "}"
        THEN [ok |-> TRUE, value |-> Append(acc, <<key.value, val.value>>), next |-> after + 1]
        ELSE IF s[after] = ","
        THEN ParseMembers(s, after + 1, Append(acc, <<key.value, val.value>>))
        ELSE ParseFail

\* the value stored under key in the pairs of a parsed object (the last one wins)
RECURSIVE Lookup(_, _, _)
Lookup(pairs, key, j) ==
    IF j = 0 THEN <<>>
    ELSE IF pairs[j][1] = key THEN pairs[j][2]
    ELSE Lookup(pairs, key, j - 1)

\* a parsed object as a message dict
ObjectToMessage(pairs) ==
    [role |-> Lookup(pairs, <<"r", "o", "l", "e">>, Len(pairs)),
     content |-> Lookup(pairs, <<"c", "o", "n", "t", "e", "n", "t">>, Len(pairs)),
     timestamp |-> Lookup(pairs, <<"t", "i", "m", "e", "s", "t", "a", "m", "p">>, Len(pairs))]

\* the objects of a list up to its closing bracket
RECURSIVE ParseElements(_, _, _)
ParseElements(s, i, acc) ==
    LET open == SkipSpaces(s, i)
        obj == IF open <= Len(s) /\ s[open] = "{"
               THEN ParseMembers(s, open + 1, <<>>) ELSE ParseFail
        after == SkipSpaces(s, obj.next)
    IN  IF ~obj.ok \/ after > Len(s) THEN ParseFail
        ELSE IF s[after] = "]"
        THEN [ok |-> TRUE, value |-> Append(acc, ObjectToMessage(obj.value)), next |-> after + 1]
        ELSE IF s[after] = ","
        THEN ParseElements(s, after + 1, Append(acc, ObjectToMessage(obj.value)))
        ELSE ParseFail

\* json.loads(full_chunk_data): [ok, value]
JsonLoads(s) ==
    IF Len(s) < 2 \/ s[1] # "[" THEN ParseFail
    ELSE IF s[SkipSpaces(s, 2)] = "]" THEN [ok |-> TRUE, value |-> <<>>, next |-> Len(s) + 1]
    ELSE ParseElements(s, 2, <<>>)

----------------------------------------------------------------------------
(* The embedding model *)

Alphabet ==
    LowerLetters \o UpperLetters \o Digits
    \o <<" ", ":", "\n", "_", "\"", "\\", "\t", ",", "{", "}", "[", "]", ".", "/">>
    \o <<"\r", "\f", "é", "-">>

CharCode ==
    [c \in {Alphabet[j] : j \in 1..Len(Alphabet)} |->
        CHOOSE j \in 1..Len(Alphabet) : Alphabet[j] = c]

\* embedding_model.encode(text): a deterministic vector of the text
Embed(text) == [j \in 1..Len(text) |-> CharCode[text[j]]]

\* embedding_model.encode(texts)
Encode(texts) == [j \in 1..Len(texts) |-> Embed(texts[j])]

\* the distance of the collection: squared L2, the shorter vector zero-padded
RECURSIVE SquaredL2(_, _, _)
SquaredL2(u, v, j) ==
    IF j > Max(Len(u), Len(v)) THEN 0
    ELSE LET a == IF j <= Len(u) THEN u[j] ELSE 0
             b == IF j <= Len(v) THEN v[j] ELSE 0
         IN  (a - b) * (a - b) + SquaredL2(u, v, j + 1)

Distance(u, v) == SquaredL2(u, v, 1)

----------------------------------------------------------------------------
(* The Chroma collection behind self.collection *)

\* the records of the collection form a bag: a record is
\* [id, embedding, document, metadata]
Count(records) == BagCardinality(records)

IdsOf(records) == {r.id : r \in BagToSet(records)}

HasDuplicates(ids) == \E i, j \in 1..Len(ids) : i < j /\ ids[i] = ids[j]

\* the collection handle is usable while it names the collection that exists
HandleValid(d, collection) == d.exists /\ d.uid = collection

\* records inserted one by one with no check of the ids already stored
RECURSIVE InsertAll(_, _, _, _, _, _)
InsertAll(records, ids, embeddings, documents, metadatas, j) ==
    IF j > Len(ids) THEN records
    ELSE InsertAll(
            records (+) SetToBag({[id |-> ids[j], embedding |-> embeddings[j],
                                   document |-> documents[j], metadata |-> metadatas[j]]}),
            ids, embeddings, documents, metadatas, j + 1)

\* records inserted one by one; an id already stored is skipped (its record stays)
RECURSIVE InsertNew(_, _, _, _, _, _)
InsertNew(records, ids, embeddings, documents, metadatas, j) ==
    IF j > Len(ids) THEN records
    ELSE InsertNew(
            IF ids[j] \in IdsOf(records) THEN records
            ELSE records (+) SetToBag({[id |-> ids[j], embedding |-> embeddings[j],
                                        document |-> documents[j], metadata |-> metadatas[j]]}),
            ids, embeddings, documents, metadatas, j + 1)

\* collection.add storing every record handed in, whatever ids are stored
CollectionAddNoIdCheck(d, collection, ids, embeddings, documents, metadatas) ==
    IF ~HandleValid(d, collection)
    THEN [raised |-> "InvalidCollectionException", db |-> d]
    ELSE [raised |-> "none",
          db |-> [d EXCEPT !.records =
                     InsertAll(d.records, ids, embeddings, documents, metadatas, 1)]]

\* collection.add(embeddings, documents, ids, metadatas) of a PersistentClient:
\* ids repeated within the call raise DuplicateIDError, ids already stored are
\* skipped without an error
CollectionAdd(d, collection, ids, embeddings, documents, metadatas) ==
    IF ~HandleValid(d, collection)
    THEN [raised |-> "InvalidCollectionException", db |-> d]
    ELSE IF HasDuplicates(ids)
    THEN [raised |-> "DuplicateIDError", db |-> d]
    ELSE [raised |-> "none",
          db |-> [d EXCEPT !.records =
                     InsertNew(d.records, ids, embeddings, documents, metadatas, 1)]]

\* a count of the conversations held instead of the records
CollectionCountConversations(d, collection) ==
    IF ~HandleValid(d, collection)
    THEN [raised |-> "InvalidCollectionException", count |-> 0]
    ELSE [raised |-> "none",
          count |-> Cardinality({r.metadata.conversation_id : r \in BagToSet(d.records)})]

\* collection.count()
CollectionCount(d, collection) ==
    IF ~HandleValid(d, collection)
    THEN [raised |-> "InvalidCollectionException", count |-> 0]
    ELSE [raised |-> "none", count |-> Count(d.records)]

\* client.delete_collection(name)
DeleteCollection(d) ==
    IF ~d.exists THEN [raised |-> "ValueError", db |-> d]
    ELSE [raised |-> "none", db |-> [d EXCEPT !.exists = FALSE, !.records = EmptyBag]]

\* client.get_or_create_collection(name): the existing collection, or a new
\* empty one with a fresh identity
GetOrCreateCollection(d) ==
    IF d.exists THEN [db |-> d, collection |-> d.uid]
    ELSE [db |-> [exists |-> TRUE, uid |-> d.uid + 1, records |-> EmptyBag],
          collection |-> d.uid + 1]

\* where=filter_dict: None, or an equality on the conversation id
NoFilter == [none |-> TRUE]

Matches(where, metadata) ==
    where = NoFilter \/ metadata.conversation_id = where.conversation_id

----------------------------------------------------------------------------
(* add_conversations *)

\* the record id without the chunk index
RecordIdNoIndex(chunk) ==
    chunk.conversation_id \o <<"_", "c", "h", "u", "n", "k">>

\* f"{chunk['conversation_id']}_chunk_{chunk['chunk_index']}"
RecordId(chunk) ==
    chunk.conversation_id \o <<"_", "c", "h", "u", "n", "k", "_">> \o Str(chunk.chunk_index)

Metadata(chunk) ==
    [conversation_id |-> chunk.conversation_id,
     conversation_title |-> chunk.conversation_title,
     created_at |-> chunk.created_at,
     chunk_index |-> chunk.chunk_index,
     message_start_idx |-> chunk.message_start_idx,
     message_end_idx |-> chunk.message_end_idx,
     full_chunk_data |-> JsonDumps(chunk.messages)]

\* all_chunks: the chunks of every conversation, chunked with the defaults
RECURSIVE AllChunks(_)
AllChunks(conversations) ==
    IF Len(conversations) = 0 THEN <<>>
    ELSE chunk_conversation(Head(conversations), DefaultChunkSize, DefaultOverlap).chunks
         \o AllChunks(Tail(conversations))

\* the lists prepared before the batch loop; encode is applied text by text, so
\* the embeddings of a batch are the slice of the embeddings of all texts
PrepareAdd(conversations) ==
    LET all_chunks == AllChunks(conversations)
        texts == [j \in 1..Len(all_chunks) |-> all_chunks[j].text]
    IN  [all_chunks |-> all_chunks,
         texts |-> texts,
         ids |-> [j \in 1..Len(all_chunks) |-> RecordId(all_chunks[j])],
         metadatas |-> [j \in 1..Len(all_chunks) |-> Metadata(all_chunks[j])],
         embeddings |-> Encode(texts)]

\* a failure of the embedding model or of the backend: none, or the call that
\* raises (for add_conversations, in the batch of index fault.batch, from 0)
NoFault == [none |-> TRUE]

FaultAt(fault, batch, call) ==
    fault # NoFault /\ fault.batch = batch /\ fault.call = call

\* the calls of one batch as they are logged: the texts handed to encode, the
\* ids and documents handed to collection.add, and what each call raised
EncodeCall(p, i, batch_end, raised) ==
    [call |-> "encode", start |-> i, texts |-> Slice(p.texts, i, batch_end),
     raised |-> raised]

AddCall(p, i, batch_end, raised) ==
    [call |-> "add", start |-> i, ids |-> Slice(p.ids, i, batch_end),
     documents |-> Slice(p.texts, i, batch_end),
     embeddings |-> Slice(p.embeddings, i, batch_end), raised |-> raised]

\* the batch loop going on to the next batch after a call raised
RECURSIVE AddBatchesSwallow(_, _, _, _, _, _, _)
AddBatchesSwallow(d, collection, p, i, batch_size, fault, calls) ==
    IF i >= Len(p.texts) THEN [raised |-> "none", db |-> d, calls |-> calls]
    ELSE LET batch_end == Min(i + batch_size, Len(p.texts))
             added == CollectionAdd(d, collection,
                                    Slice(p.ids, i, batch_end),
                                    Slice(p.embeddings, i, batch_end),
                                    Slice(p.texts, i, batch_end),
                                    Slice(p.metadatas, i, batch_end))
         IN  IF FaultAt(fault, i \div batch_size, "encode")
             THEN AddBatchesSwallow(d, collection, p, i + batch_size, batch_size, fault,
                      Append(calls, EncodeCall(p, i, batch_end, "EmbeddingError")))
             ELSE IF FaultAt(fault, i \div batch_size, "add")
             THEN AddBatchesSwallow(d, collection, p, i + batch_size, batch_size, fault,
                      calls \o <<EncodeCall(p, i, batch_end, "none"),
                                 AddCall(p, i, batch_end, "BackendError")>>)
             ELSE AddBatchesSwallow(added.db, collection, p, i + batch_size, batch_size,
                      fault,
                      calls \o <<EncodeCall(p, i, batch_end, "none"),
                                 AddCall(p, i, batch_end, added.raised)>>)

\* the batch loop sending every batch from the start of the list
RECURSIVE AddBatchesFromStart(_, _, _, _, _, _, _)
AddBatchesFromStart(d, collection, p, i, batch_size, fault, calls) ==
    IF i >= Len(p.texts) THEN [raised |-> "none", db |-> d, calls |-> calls]
    ELSE LET batch_end == Min(i + batch_size, Len(p.texts))
             added == CollectionAdd(d, collection,
                                    Slice(p.ids, 0, batch_end),
                                    Slice(p.embeddings, 0, batch_end),
                                    Slice(p.texts, 0, batch_end),
                                    Slice(p.metadatas, 0, batch_end))
         IN  IF FaultAt(fault, i \div batch_size, "encode")
             THEN [raised |-> "EmbeddingError", db |-> d,
                   calls |-> Append(calls, EncodeCall(p, 0, batch_end, "EmbeddingError"))]
             ELSE IF FaultAt(fault, i \div batch_size, "add")
             THEN [raised |-> "BackendError", db |-> d,
                   calls |-> calls \o <<EncodeCall(p, 0, batch_end, "none"),
                                        AddCall(p, 0, batch_end, "BackendError")>>]
             ELSE IF added.raised # "none"
             THEN [raised |-> added.raised, db |-> d,
                   calls |-> calls \o <<EncodeCall(p, 0, batch_end, "none"),
                                        AddCall(p, 0, batch_end, added.raised)>>]
             ELSE AddBatchesFromStart(added.db, collection, p, i + batch_size, batch_size,
                      fault,
                      calls \o <<EncodeCall(p, 0, batch_end, "none"),
                                 AddCall(p, 0, batch_end, "none")>>)

\* for i in range(0, len(texts), batch_size), batch_size > 0: the batch is
\* encoded, then added; an exception of either call is not caught, so it ends
\* the loop and leaves the batches already added in the collection
RECURSIVE AddBatches(_, _, _, _, _, _, _)
AddBatches(d, collection, p, i, batch_size, fault, calls) ==
    IF i >= Len(p.texts) THEN [raised |-> "none", db |-> d, calls |-> calls]
    ELSE LET batch_end == Min(i + batch_size, Len(p.texts))
             added == CollectionAdd(d, collection,
                                    Slice(p.ids, i, batch_end),
                                    Slice(p.embeddings, i, batch_end),
                                    Slice(p.texts, i, batch_end),
                                    Slice(p.metadatas, i, batch_end))
         IN  IF FaultAt(fault, i \div batch_size, "encode")
             THEN [raised |-> "EmbeddingError", db |-> d,
                   calls |-> Append(calls, EncodeCall(p, i, batch_end, "EmbeddingError"))]
             ELSE IF FaultAt(fault, i \div batch_size, "add")
             THEN [raised |-> "BackendError", db |-> d,
                   calls |-> calls \o <<EncodeCall(p, i, batch_end, "none"),
                                        AddCall(p, i, batch_end, "BackendError")>>]
             ELSE IF added.raised # "none"
             THEN [raised |-> added.raised, db |-> d,
                   calls |-> calls \o <<EncodeCall(p, i, batch_end, "none"),
                                        AddCall(p, i, batch_end, added.raised)>>]
             ELSE AddBatches(added.db, collection, p, i + batch_size, batch_size, fault,
                      calls \o <<EncodeCall(p, i, batch_end, "none"),
                                 AddCall(p, i, batch_end, "none")>>)

\* the loop over range(0, len(texts), batch_size): range() raises ValueError for
\* a zero step and is empty for a negative one
AddLoop(d, collection, p, batch_size, fault) ==
    IF batch_size = 0 THEN [raised |-> "ValueError", db |-> d, calls |-> <<>>]
    ELSE IF batch_size < 0 THEN [raised |-> "none", db |-> d, calls |-> <<>>]
    ELSE AddBatches(d, collection, p, 0, batch_size, fault, <<>>)

----------------------------------------------------------------------------
(* Inputs of the store *)

\* conversation a with no, one or MaxStoreMsgs messages, a second version of it
\* with other contents, and conversation b
StoreConversations ==
    {SampleConversation(<<"a">>, n, "x") : n \in {0, 1, MaxStoreMsgs}}
    \cup {SampleConversation(<<"a">>, MaxStoreMsgs, "y")}
    \cup {SampleConversation(<<"b">>, n, "x") : n \in {1, MaxStoreMsgs}}

\* the lists of conversations handed to add_conversations
ConversationLists ==
    {<<>>} \cup {<<c>> : c \in StoreConversations}
           \cup {<<c, e>> : c \in StoreConversations, e \in StoreConversations}

\* conversation ids that contain the separator of the record id, or are empty
SeparatorIds ==
    {<<"a">>,
     <<"a", "_", "c", "h", "u", "n", "k", "_", "0">>,
     <<"a", "_", "c", "h", "u", "n", "k", "_">>,
     <<"0">>,
     <<>>}

IdConversations ==
    {SampleConversation(id, n, "x") : id \in SeparatorIds, n \in {1, MaxStoreMsgs}}

IdLists ==
    {<<>>} \cup {<<c>> : c \in IdConversations}
           \cup {<<c, e>> : c \in IdConversations, e \in IdConversations}

\* characters json.dumps escapes, and one it leaves alone
SpecialChars == {"\"", "\\", "\n", "\t", "\r", "\f", "é", "/"}

\* conversation t, its contents starting with one of the special characters
TextConversations ==
    {SampleConversation(<<"t">>, n, v) : n \in {1, MaxStoreMsgs}, v \in SpecialChars}

TextLists == {<<c>> : c \in TextConversations}

\* the lists whose chunks fill no, one or several batches
BatchLists ==
    {<<>>,
     <<SampleConversation(<<"a">>, MaxStoreMsgs, "x")>>,
     <<SampleConversation(<<"a">>, MaxStoreMsgs, "x"),
       SampleConversation(<<"b">>, MaxStoreMsgs, "x")>>,
     <<SampleConversation(<<"a">>, MaxStoreMsgs, "x"),
       SampleConversation(<<"a">>, MaxStoreMsgs, "y")>>,
     <<SampleConversation(<<"b">>, 1, "x"),
       SampleConversation(<<"a">>, MaxStoreMsgs, "x")>>}

\* the batch sizes tried: range() takes a zero and a negative step as well
BatchSizes == (-1)..MaxBatchSize

\* the failures tried during add_conversations and during search
AddFaults ==
    {NoFault} \cup {[batch |-> j, call |-> c] : j \in 0..MaxFaultBatch, c \in {"encode", "add"}}

SearchFaults ==
    {NoFault} \cup {[batch |-> 0, call |-> c] : c \in {"encode", "query"}}

AddInputs == ConversationLists \cup IdLists \cup TextLists

\* PrepareAdd of every input, computed once
Prepared == [conversations \in AddInputs |-> PrepareAdd(conversations)] @@ <<>>

NoArgs == [none |-> TRUE]

\* the chunks the inputs can put into a collection
PreparedChunks ==
    UNION {{Prepared[conversations].all_chunks[j] :
               j \in 1..Len(Prepared[conversations].all_chunks)} :
           conversations \in AddInputs}

\* the queries of search: the text of a stored chunk, and two other texts
Queries ==
    {ChunkText(SampleConversation(<<"a">>, 1, "x").messages),
     <<"x", "2">>,
     <<"U", "s", "e", "r", ":", " ", "x", "1", "\n", "\n", "A", "s", "s", "i", "s", "t">>}

\* the filters of search: none, a stored conversation, a conversation never stored
Filters == {NoFilter, [conversation_id |-> <<"a">>], [conversation_id |-> <<"c">>]}

\* the queries over the texts with special characters: a stored chunk, another text
TextQueries ==
    {ChunkText(SampleConversation(<<"t">>, 1, "\"").messages),
     <<"U", "s", "e", "r", ":", " ", "é">>}

\* the query of the searches next to batched imports: the first chunk of a
BatchQueries ==
    {chunk_conversation(SampleConversation(<<"a">>, MaxStoreMsgs, "x"),
                        DefaultChunkSize, DefaultOverlap).chunks[1].text}

\* Distance and JsonLoads of the inputs above, computed once (@@ makes the
\* table an explicit function, so that its entries are not computed again)
DistanceTable ==
    [pair \in {Embed(query) : query \in Queries \cup TextQueries \cup BatchQueries}
              \X {Embed(chunk.text) : chunk \in PreparedChunks} |->
        Distance(pair[1], pair[2])] @@ <<>>

JsonLoadsTable ==
    [s \in {Metadata(chunk).full_chunk_data : chunk \in PreparedChunks} |-> JsonLoads(s)] @@ <<>>

DistanceOf(u, v) ==
    IF <<u, v>> \in DOMAIN DistanceTable THEN DistanceTable[<<u, v>>] ELSE Distance(u, v)

JsonLoadsOf(s) ==
    IF s \in DOMAIN JsonLoadsTable THEN JsonLoadsTable[s] ELSE JsonLoads(s)

----------------------------------------------------------------------------
(* collection.query and search *)

\* the records of the collection one by one: a record and its copy number
Items(records) ==
    UNION {{<<r, copy>> : copy \in 1..CopiesIn(r, records)} : r \in BagToSet(records)}

\* the rankings a nearest-neighbour query may deliver: the k nearest candidates
\* by ascending distance, records at equal distance in any order
Rankings(candidates, query_embedding, k) ==
    {ranking \in [1..k -> candidates] :
        /\ \A i, j \in 1..k : i < j => ranking[i] # ranking[j]
        /\ \A i, j \in 1..k : i < j =>
              DistanceOf(query_embedding, ranking[i][1].embedding)
                  <= DistanceOf(query_embedding, ranking[j][1].embedding)
        /\ \A e \in candidates : (\A i \in 1..k : ranking[i] # e) =>
              \A i \in 1..k : DistanceOf(query_embedding, ranking[i][1].embedding)
                                  <= DistanceOf(query_embedding, e[1].embedding)}

\* the result dict of one ranking: one inner list per query embedding
QueryResult(ranking, query_embedding) ==
    [ids |-> <<[i \in 1..Len(ranking) |-> ranking[i][1].id]>>,
     documents |-> <<[i \in 1..Len(ranking) |-> ranking[i][1].document]>>,
     metadatas |-> <<[i \in 1..Len(ranking) |-> ranking[i][1].metadata]>>,
     distances |-> <<[i \in 1..Len(ranking) |->
                        DistanceOf(query_embedding, ranking[i][1].embedding)]>>]

\* collection.query(query_embeddings=[e], n_results, where): what the call may
\* deliver, as [raised, results]; fewer than n_results candidates are all returned
CollectionQuery(d, collection, query_embedding, n_results, where) ==
    IF ~HandleValid(d, collection)
    THEN {[raised |-> "InvalidCollectionException", results |-> <<>>]}
    ELSE LET candidates == {e \in Items(d.records) : Matches(where, e[1].metadata)}
             k == Min(n_results, Cardinality(candidates))
         IN  {[raised |-> "none", results |-> QueryResult(ranking, query_embedding)] :
                 ranking \in Rankings(candidates, query_embedding, k)}

\* the formatting loop of search, reading the first result without the guard
\* for an empty result
SearchResultUnguarded(delivered) ==
    IF delivered.raised # "none" THEN [raised |-> delivered.raised, result |-> <<>>]
    ELSE IF Len(delivered.results.documents[1]) = 0
    THEN [raised |-> "IndexError", result |-> <<>>]
    ELSE LET results == delivered.results
         IN  [raised |-> "none",
              result |-> [i \in 1..Len(results.documents[1]) |->
                  [text |-> results.documents[1][i],
                   conversation_id |-> results.metadatas[1][i].conversation_id,
                   conversation_title |-> results.metadatas[1][i].conversation_title,
                   created_at |-> results.metadatas[1][i].created_at,
                   distance |-> results.distances[1][i],
                   messages |-> JsonLoadsOf(results.metadatas[1][i].full_chunk_data).value]]]

\* the formatting loop of search, filling the list from the back
SearchResultReversed(delivered) ==
    IF delivered.raised # "none" THEN [raised |-> delivered.raised, result |-> <<>>]
    ELSE LET results == delivered.results
             n == Len(results.documents[1])
         IN  [raised |-> "none",
              result |-> [i \in 1..n |->
                  [text |-> results.documents[1][n + 1 - i],
                   conversation_id |-> results.metadatas[1][n + 1 - i].conversation_id,
                   conversation_title |-> results.metadatas[1][n + 1 - i].conversation_title,
                   created_at |-> results.metadatas[1][n + 1 - i].created_at,
                   distance |-> results.distances[1][n + 1 - i],
                   messages |->
                       JsonLoadsOf(results.metadatas[1][n + 1 - i].full_chunk_data).value]]]

\* search(): the formatted results of what collection.query delivered; an
\* exception of the query propagates, json.loads raises on a malformed document
SearchResult(delivered) ==
    IF delivered.raised # "none" THEN [raised |-> delivered.raised, result |-> <<>>]
    ELSE LET results == delivered.results
         IN  IF Len(results.documents) > 0 /\ Len(results.documents[1]) > 0
             THEN IF \E i \in 1..Len(results.documents[1]) :
                        ~JsonLoadsOf(results.metadatas[1][i].full_chunk_data).ok
                  THEN [raised |-> "JSONDecodeError", result |-> <<>>]
                  ELSE [raised |-> "none",
                        result |-> [i \in 1..Len(results.documents[1]) |->
                            [text |-> results.documents[1][i],
                             conversation_id |-> results.metadatas[1][i].conversation_id,
                             conversation_title |-> results.metadatas[1][i].conversation_title,
                             created_at |-> results.metadatas[1][i].created_at,
                             distance |-> results.distances[1][i],
                             messages |->
                                 JsonLoadsOf(results.metadatas[1][i].full_chunk_data).value]]]
             ELSE [raised |-> "none", result |-> <<>>]

\* what search holds of the query when a call before it, or the query, raised
NotDelivered(raised) == [raised |-> raised, results |-> <<>>]

\* search encoding the lower-cased query
SearchLowerQuery(query, n_results, where, fault) ==
    /\ \E delivered \in
             IF fault # NoFault /\ fault.call = "encode"
             THEN {NotDelivered("EmbeddingError")}
             ELSE IF fault # NoFault /\ fault.call = "query"
             THEN {NotDelivered("BackendError")}
             ELSE CollectionQuery(db, store.collection, Embed(Lower(query)), n_results, where) :
          LET out == SearchResult(delivered)
          IN  last' = [op |-> "search",
                       raised |-> out.raised,
                       result |-> out.result,
                       args |-> [query |-> query, n_results |-> n_results,
                                 where |-> where, fault |-> fault,
                                 delivered |-> delivered],
                       repeat |-> FALSE,
                       before |-> Count(db.records)]
    /\ UNCHANGED <<db, store, chunkVars, importVars>>

\* search adding the query to the collection as a record of its own
SearchStoringQuery(query, n_results, where, fault) ==
    /\ \E delivered \in
             IF fault # NoFault /\ fault.call = "encode"
             THEN {NotDelivered("EmbeddingError")}
             ELSE IF fault # NoFault /\ fault.call = "query"
             THEN {NotDelivered("BackendError")}
             ELSE CollectionQuery(db, store.collection, Embed(query), n_results, where) :
          LET out == SearchResult(delivered)
          IN  last' = [op |-> "search",
                       raised |-> out.raised,
                       result |-> out.result,
                       args |-> [query |-> query, n_results |-> n_results,
                                 where |-> where, fault |-> fault,
                                 delivered |-> delivered],
                       repeat |-> FALSE,
                       before |-> Count(db.records)]
    /\ db' = CollectionAdd(db, store.collection, <<query>>, <<Embed(query)>>, <<query>>,
                           <<[conversation_id |-> <<"q">>,
                              conversation_title |-> <<>>,
                              created_at |-> <<>>,
                              chunk_index |-> 0,
                              message_start_idx |-> 0,
                              message_end_idx |-> 0,
                              full_chunk_data |-> <<"[", "]">>]>>).db
    /\ UNCHANGED <<store, chunkVars, importVars>>

\* search(query, n_results, filter_dict), with the failure (if any) of the
\* embedding model or of the backend during the call: the query is encoded,
\* the collection queried, the results formatted; no exception is caught
Search(query, n_results, where, fault) ==
    /\ \E delivered \in
             IF fault # NoFault /\ fault.call = "encode"
             THEN {NotDelivered("EmbeddingError")}
             ELSE IF fault # NoFault /\ fault.call = "query"
             THEN {NotDelivered("BackendError")}
             ELSE CollectionQuery(db, store.collection, Embed(query), n_results, where) :
          LET out == SearchResult(delivered)
          IN  last' = [op |-> "search",
                       raised |-> out.raised,
                       result |-> out.result,
                       args |-> [query |-> query, n_results |-> n_results,
                                 where |-> where, fault |-> fault,
                                 delivered |-> delivered],
                       repeat |-> FALSE,
                       before |-> Count(db.records)]
    /\ UNCHANGED <<db, store, chunkVars, importVars>>

----------------------------------------------------------------------------
(* The importer: values as json.load returns them *)

\* a parsed JSON value: its Python type, and the characters of a str, the
\* items of a list, the fields of a dict (a function from its keys) or the
\* number of an int
JStr(chars) ==
    [type |-> "str", text |-> chars, items |-> <<>>, fields |-> <<>>, number |-> 0]

JList(items) ==
    [type |-> "list", text |-> <<>>, items |-> items, fields |-> <<>>, number |-> 0]

JDict(fields) ==
    [type |-> "dict", text |-> <<>>, items |-> <<>>, fields |-> fields, number |-> 0]

JInt(k) ==
    [type |-> "int", text |-> <<>>, items |-> <<>>, fields |-> <<>>, number |-> k]

JNone ==
    [type |-> "NoneType", text |-> <<>>, items |-> <<>>, fields |-> <<>>, number |-> 0]

Ok(value) == [raised |-> "none", value |-> value]

Raise(exception) == [raised |-> exception, value |-> <<>>]

\* obj.get(key, default) of a dict
Get(obj, key, default) ==
    IF key \in DOMAIN obj.fields THEN obj.fields[key] ELSE default

\* the keys of a dict as a sequence of strings (the callers fail on the first
\* of them, so their order plays no part)
RECURSIVE KeySeq(_)
KeySeq(keys) ==
    IF keys = {} THEN <<>>
    ELSE LET k == CHOOSE k \in keys : TRUE IN <<JStr(<<k>>)>> \o KeySeq(keys \ {k})

\* the items `for x in value` goes through: the elements of a list, the
\* characters of a str, the keys of a dict; any other value is not iterable
Iterate(v) ==
    IF v.type = "list" THEN Ok(v.items)
    ELSE IF v.type = "str" THEN Ok([j \in 1..Len(v.text) |-> JStr(<<v.text[j]>>)])
    ELSE IF v.type = "dict" THEN Ok(KeySeq(DOMAIN v.fields))
    ELSE Raise("TypeError")

\* datetime.now().timestamp() in an f-string, for a clock of whole seconds
TimestampText(t) == Str(t) \o <<".", "0">>

\* datetime.now().isoformat(), for a clock within the first minute of 1970
IsoFormat(t) ==
    <<"1", "9", "7", "0", "-", "0", "1", "-", "0", "1", "T", "0", "0", ":", "0", "0", ":">>
    \o (IF t < 10 THEN <<"0">> ELSE <<>>) \o Str(t)

\* a fallback id made of the index alone
FallbackIdNoTime(idx, t) == <<"c", "o", "n", "v", "_">> \o Str(idx)

\* f'conv_{idx}_{datetime.now().timestamp()}'
FallbackId(idx, t) == <<"c", "o", "n", "v", "_">> \o Str(idx) \o <<"_">> \o TimestampText(t)

\* f'Conversation {idx + 1}'
FallbackTitle(idx) ==
    <<"C", "o", "n", "v", "e", "r", "s", "a", "t", "i", "o", "n", " ">> \o Str(idx + 1)

\* the loop over the blocks taking the text of any dict that has one
RECURSIVE TextPartsAnyDict(_)
TextPartsAnyDict(blocks) ==
    IF Len(blocks) = 0 THEN <<>>
    ELSE LET block == Head(blocks)
         IN  (IF block.type = "dict" /\ "text" \in DOMAIN block.fields
              THEN <<block.fields["text"]>>
              ELSE IF block.type = "str" THEN <<block>>
              ELSE <<>>)
             \o TextPartsAnyDict(Tail(blocks))

\* the loop over the blocks of a content list: the text of the dicts tagged
\* text and the blocks that are strings, the other blocks left out
RECURSIVE TextParts(_)
TextParts(blocks) ==
    IF Len(blocks) = 0 THEN <<>>
    ELSE LET block == Head(blocks)
         IN  (IF block.type = "dict"
                  /\ Get(block, "type", JNone) = JStr(<<"t", "e", "x", "t">>)
              THEN <<Get(block, "text", JStr(<<>>))>>
              ELSE IF block.type = "str" THEN <<block>>
              ELSE <<>>)
             \o TextParts(Tail(blocks))

\* '\n'.join(text_parts): a part that is no str raises TypeError
JoinParts(parts) ==
    IF \E j \in 1..Len(parts) : parts[j].type # "str" THEN Raise("TypeError")
    ELSE Ok(JStr(Join(<<"\n">>, [j \in 1..Len(parts) |-> parts[j].text])))

\* the normalized message looking up sender before role
NormalizeMessageSenderFirst(msg) ==
    IF msg.type # "dict" THEN Raise("AttributeError")
    ELSE LET role == Get(msg, "sender", Get(msg, "role", JStr(<<"u", "n", "k", "n", "o", "w", "n">>)))
             content == Get(msg, "content", Get(msg, "text", JStr(<<>>)))
             timestamp == Get(msg, "timestamp", Get(msg, "created_at", JStr(<<>>)))
             joined == JoinParts(TextParts(content.items))
         IN  IF content.type # "list"
             THEN Ok([role |-> role, content |-> content, timestamp |-> timestamp])
             ELSE IF joined.raised # "none" THEN joined
             ELSE Ok([role |-> role, content |-> joined.value, timestamp |-> timestamp])

\* the normalized message indexing the fields instead of looking them up
NormalizeMessageIndexed(msg) ==
    IF msg.type # "dict" THEN Raise("AttributeError")
    ELSE IF ~({"role", "content", "timestamp"} \subseteq DOMAIN msg.fields)
    THEN Raise("KeyError")
    ELSE LET content == msg.fields["content"]
             joined == JoinParts(TextParts(content.items))
         IN  IF content.type # "list"
             THEN Ok([role |-> msg.fields["role"], content |-> content,
                      timestamp |-> msg.fields["timestamp"]])
             ELSE IF joined.raised # "none" THEN joined
             ELSE Ok([role |-> msg.fields["role"], content |-> joined.value,
                      timestamp |-> msg.fields["timestamp"]])

\* normalized_msg of one message: msg.get raises AttributeError on a value that
\* is no dict
NormalizeMessage(msg) ==
    IF msg.type # "dict" THEN Raise("AttributeError")
    ELSE LET role == Get(msg, "role", Get(msg, "sender", JStr(<<"u", "n", "k", "n", "o", "w", "n">>)))
             content == Get(msg, "content", Get(msg, "text", JStr(<<>>)))
             timestamp == Get(msg, "timestamp", Get(msg, "created_at", JStr(<<>>)))
             joined == JoinParts(TextParts(content.items))
         IN  IF content.type # "list"
             THEN Ok([role |-> role, content |-> content, timestamp |-> timestamp])
             ELSE IF joined.raised # "none" THEN joined
             ELSE Ok([role |-> role, content |-> joined.value, timestamp |-> timestamp])

\* the loop over the messages putting each message before the earlier ones
RECURSIVE NormalizeMessagesReversed(_, _)
NormalizeMessagesReversed(messages, acc) ==
    IF Len(messages) = 0 THEN Ok(acc)
    ELSE LET normalized_msg == NormalizeMessage(Head(messages))
         IN  IF normalized_msg.raised # "none" THEN normalized_msg
             ELSE NormalizeMessagesReversed(Tail(messages), <<normalized_msg.value>> \o acc)

\* the loop `for msg in messages`
RECURSIVE NormalizeMessages(_, _)
NormalizeMessages(messages, acc) ==
    IF Len(messages) = 0 THEN Ok(acc)
    ELSE LET normalized_msg == NormalizeMessage(Head(messages))
         IN  IF normalized_msg.raised # "none" THEN normalized_msg
             ELSE NormalizeMessages(Tail(messages), Append(acc, normalized_msg.value))

\* the body of the loop over the conversations for conversation idx at time t
NormalizeConversation(convo, idx, t) ==
    IF convo.type # "dict" THEN Raise("AttributeError")
    ELSE LET messages == Iterate(Get(convo, "messages", Get(convo, "chat_messages", JList(<<>>))))
             normalized == NormalizeMessages(messages.value, <<>>)
         IN  IF messages.raised # "none" THEN messages
             ELSE IF normalized.raised # "none" THEN normalized
             ELSE Ok([id |-> Get(convo, "id", JStr(FallbackId(idx, t))),
                      created_at |-> Get(convo, "created_at",
                                         Get(convo, "timestamp", JStr(IsoFormat(t)))),
                      title |-> Get(convo, "title", Get(convo, "name", JStr(FallbackTitle(idx)))),
                      messages |-> normalized.value])

\* the loop `for idx, convo in enumerate(raw_conversations)` from idx on
RECURSIVE NormalizeFrom(_, _, _, _)
NormalizeFrom(items, idx, t, acc) ==
    IF idx >= Len(items) THEN Ok(acc)
    ELSE LET conversation == NormalizeConversation(items[idx + 1], idx, t)
         IN  IF conversation.raised # "none" THEN conversation
             ELSE NormalizeFrom(items, idx + 1, t, Append(acc, conversation.value))

\* _normalize_conversations(raw_conversations) at time t
normalize_conversations(raw_conversations, t) ==
    LET items == Iterate(raw_conversations)
    IN  IF items.raised # "none" THEN items
        ELSE NormalizeFrom(items.value, 0, t, <<>>)

\* a file of the directory: its name, and what open and json.load make of it
\* (an OSError, a JSONDecodeError, or the parsed value)
UnreadableFile(name) == [name |-> name, loads |-> Raise("OSError")]

MalformedFile(name) == [name |-> name, loads |-> Raise("JSONDecodeError")]

JsonFile(name, data) == [name |-> name, loads |-> Ok(data)]

\* import_from_json_export(file_path) at time t
import_from_json_export(file, t) ==
    IF file.loads.raised # "none" THEN file.loads
    ELSE LET data == file.loads.value
         IN  IF data.type = "list" THEN normalize_conversations(data, t)
             ELSE IF data.type = "dict" /\ "conversations" \in DOMAIN data.fields
             THEN normalize_conversations(data.fields["conversations"], t)
             ELSE normalize_conversations(JList(<<data>>), t)

\* the name matches the pattern *.json
MatchesJson(name) ==
    /\ Len(name) >= 5
    /\ SubSeq(name, Len(name) - 4, Len(name)) = <<".", "j", "s", "o", "n">>

\* the loop over the files without the try around the import of a file
RECURSIVE ImportFilesNoCatch(_, _, _)
ImportFilesNoCatch(files, t, all_conversations) ==
    IF Len(files) = 0 THEN Ok(all_conversations)
    ELSE LET file == Head(files)
             convos == import_from_json_export(file, t)
         IN  IF ~MatchesJson(file.name)
             THEN ImportFilesNoCatch(Tail(files), t, all_conversations)
             ELSE IF convos.raised # "none" THEN convos
             ELSE ImportFilesNoCatch(Tail(files), t, all_conversations \o convos.value)

\* the loop `for json_file in dir_path.glob("*.json")`: an exception of one file
\* is printed and the loop goes on
RECURSIVE ImportFiles(_, _, _)
ImportFiles(files, t, all_conversations) ==
    IF Len(files) = 0 THEN Ok(all_conversations)
    ELSE LET file == Head(files)
             convos == import_from_json_export(file, t)
         IN  IF ~MatchesJson(file.name) \/ convos.raised # "none"
             THEN ImportFiles(Tail(files), t, all_conversations)
             ELSE ImportFiles(Tail(files), t, all_conversations \o convos.value)

\* import_from_directory(dir_path) at time t, the directory given as its files
\* in the order glob yields them
import_from_directory(files, t) == ImportFiles(files, t, <<>>)

----------------------------------------------------------------------------
(* ClaudeParser of chatgpt-claude-conversation-history: load and              *)
(* _extract_messages                                                          *)

\* bool(v): None, 0 and the empty str, list and dict are false
Truthy(v) ==
    CASE v.type = "str" -> v.text # <<>>
      [] v.type = "list" -> v.items # <<>>
      [] v.type = "dict" -> DOMAIN v.fields # {}
      [] v.type = "int" -> v.number # 0
      [] OTHER -> FALSE

\* a or b
Or(a, b) == IF Truthy(a) THEN a ELSE b

\* the keys load tries, in its order
ContainerKeys == <<"conversations", "chats", "messages", "data">>

\* the loop over the keys of load: the value of a key that is present is
\* assigned, and the loop ends at the first that is a list
RECURSIVE TryKeys(_, _, _)
TryKeys(data, keys, conversations) ==
    IF Len(keys) = 0 THEN conversations
    ELSE IF Head(keys) \in DOMAIN data.fields
    THEN IF data.fields[Head(keys)].type = "list" THEN data.fields[Head(keys)]
         ELSE TryKeys(data, Tail(keys), data.fields[Head(keys)])
    ELSE TryKeys(data, Tail(keys), conversations)

\* load of a parser whose self.conversations is conversations: what it returns
\* and self.conversations after it; an error other than the two it catches
\* is raised
load(file, conversations) ==
    IF file.loads.raised \in {"FileNotFoundError", "JSONDecodeError"}
    THEN Ok([returned |-> FALSE, conversations |-> conversations])
    ELSE IF file.loads.raised # "none" THEN file.loads
    ELSE LET data == file.loads.value
             found == TryKeys(data, ContainerKeys, conversations)
         IN  IF data.type = "list" THEN Ok([returned |-> TRUE, conversations |-> data])
             ELSE IF data.type = "dict"
             THEN Ok([returned |-> TRUE,
                      conversations |->
                          IF ~Truthy(found) /\ "uuid" \in DOMAIN data.fields
                          THEN JList(<<data>>) ELSE found])
             ELSE Ok([returned |-> TRUE, conversations |-> conversations])

\* sub in s of two strings
Contains(s, sub) ==
    \E j \in 0..(Len(s) - Len(sub)) : SubSeq(s, j + 1, j + Len(sub)) = sub

\* the characters of the field names _extract_messages looks for
KeyChars(key) ==
    CASE key = "messages" -> <<"m", "e", "s", "s", "a", "g", "e", "s">>
      [] key = "chat_messages" ->
            <<"c", "h", "a", "t", "_", "m", "e", "s", "s", "a", "g", "e", "s">>
      [] key = "content" -> <<"c", "o", "n", "t", "e", "n", "t">>
      [] key = "text" -> <<"t", "e", "x", "t">>

\* key in conversation: a key of a dict, an item of a list, a part of a str;
\* any other value raises TypeError
In(key, conversation) ==
    CASE conversation.type = "dict" -> Ok(key \in DOMAIN conversation.fields)
      [] conversation.type = "list" ->
            Ok(\E j \in 1..Len(conversation.items) :
                  conversation.items[j] = JStr(KeyChars(key)))
      [] conversation.type = "str" -> Ok(Contains(conversation.text, KeyChars(key)))
      [] OTHER -> Raise("TypeError")

\* the field names _extract_messages tries, in its order
MessageFields == <<"messages", "chat_messages", "content">>

\* the loop over the field names: the first that is present and holds a list,
\* None when there is none (conversation[msg_field] of a list raises TypeError)
RECURSIVE FindMessageData(_, _)
FindMessageData(conversation, fields) ==
    IF Len(fields) = 0 THEN Ok(JNone)
    ELSE LET present == In(Head(fields), conversation)
         IN  IF present.raised # "none" THEN present
             ELSE IF present.value /\ conversation.type # "dict" THEN Raise("TypeError")
             ELSE IF present.value /\ conversation.fields[Head(fields)].type = "list"
             THEN Ok(conversation.fields[Head(fields)])
             ELSE FindMessageData(conversation, Tail(fields))

\* the loop over the blocks of a content list: the text of every dict that has
\* one and the blocks that are strings
RECURSIVE ContentParts(_)
ContentParts(blocks) ==
    IF Len(blocks) = 0 THEN <<>>
    ELSE LET block == Head(blocks)
         IN  (IF block.type = "dict" /\ "text" \in DOMAIN block.fields
              THEN <<block.fields["text"]>>
              ELSE IF block.type = "str" THEN <<block>>
              ELSE <<>>)
             \o ContentParts(Tail(blocks))

\* the content of a message object
ExtractContent(msg) ==
    IF "text" \in DOMAIN msg.fields THEN Ok(msg.fields["text"])
    ELSE IF "content" \in DOMAIN msg.fields /\ msg.fields["content"].type = "str"
    THEN Ok(msg.fields["content"])
    ELSE IF "content" \in DOMAIN msg.fields /\ msg.fields["content"].type = "list"
    THEN JoinParts(ContentParts(msg.fields["content"].items))
    ELSE Ok(JStr(<<>>))

\* the messages appended for one item of the message list: one for an object,
\* one for a string, none for any other item
ExtractMessage(msg) ==
    IF msg.type = "dict"
    THEN LET content == ExtractContent(msg)
         IN  IF content.raised # "none" THEN content
             ELSE Ok(<<[role |-> Or(Get(msg, "sender", JNone),
                                   Or(Get(msg, "role", JNone),
                                      Or(Get(msg, "author", JNone),
                                         JStr(<<"u", "n", "k", "n", "o", "w", "n">>)))),
                        content |-> content.value,
                        timestamp |-> Or(Get(msg, "created_at", JNone),
                                         Get(msg, "timestamp", JNone))]>>)
    ELSE IF msg.type = "str"
    THEN Ok(<<[role |-> JStr(<<"u", "n", "k", "n", "o", "w", "n">>), content |-> msg,
               timestamp |-> JNone]>>)
    ELSE Ok(<<>>)

\* the loop `for msg in message_data`
RECURSIVE ExtractFrom(_, _)
ExtractFrom(message_data, messages) ==
    IF Len(message_data) = 0 THEN Ok(messages)
    ELSE LET message == ExtractMessage(Head(message_data))
         IN  IF message.raised # "none" THEN message
             ELSE ExtractFrom(Tail(message_data), messages \o message.value)

\* the one message of a conversation that holds text or content itself
SingleMessage(conversation) ==
    [role |-> Or(Get(conversation, "sender", JNone), JStr(<<"u", "n", "k", "n", "o", "w", "n">>)),
     content |-> Or(Get(conversation, "text", JNone), Get(conversation, "content", JStr(<<>>))),
     timestamp |-> Or(Get(conversation, "created_at", JNone),
                      Get(conversation, "timestamp", JNone))]

\* _extract_messages(conversation)
extract_messages(conversation) ==
    LET message_data == FindMessageData(conversation, MessageFields)
        has_text == In("text", conversation)
        has_content == In("content", conversation)
    IN  IF message_data.raised # "none" THEN message_data
        ELSE IF Truthy(message_data.value) THEN ExtractFrom(message_data.value.items, <<>>)
        ELSE IF has_text.value \/ has_content.value
        THEN IF conversation.type # "dict" THEN Raise("AttributeError")
             ELSE Ok(<<SingleMessage(conversation)>>)
        ELSE Ok(<<>>)

----------------------------------------------------------------------------
(* The operations of ConversationVectorStore and of the CLI *)

InitStore ==
    /\ db = [exists |-> TRUE, uid |-> 0, records |-> EmptyBag]
    /\ store = [db_path |-> "./chroma_db",
                collection_name |-> "claude_conversations",
                collection |-> 0]
    /\ last = [op |-> "init", raised |-> "none", result |-> "none",
               args |-> NoArgs, repeat |-> FALSE, before |-> 0]

\* add_conversations(conversations, batch_size), with the failure (if any) of
\* the embedding model or of the backend during the call
AddConversations(conversations, batch_size, fault) ==
    LET p == Prepared[conversations]
        out == AddLoop(db, store.collection, p, batch_size, fault)
    IN  /\ db' = out.db
        /\ last' = [op |-> "add",
                    raised |-> out.raised,
                    result |-> IF out.raised = "none" THEN Len(p.all_chunks) ELSE "none",
                    args |-> [conversations |-> conversations, batch_size |-> batch_size,
                              fault |-> fault, calls |-> out.calls],
                    repeat |-> /\ last.op = "add"
                               /\ last.raised = "none"
                               /\ last.args.conversations = conversations,
                    before |-> Count(db.records)]
        /\ UNCHANGED <<store, chunkVars, importVars>>

\* get_stats()
GetStats ==
    LET counted == CollectionCount(db, store.collection)
    IN  /\ last' = [op |-> "stats",
                    raised |-> counted.raised,
                    result |-> IF counted.raised = "none"
                               THEN [total_chunks |-> counted.count,
                                     collection_name |-> store.collection_name,
                                     db_path |-> store.db_path]
                               ELSE "none",
                    args |-> NoArgs,
                    repeat |-> FALSE,
                    before |-> Count(db.records)]
        /\ UNCHANGED <<db, store, chunkVars, importVars>>

\* reset() without re-binding self.collection to the collection created
ResetKeepHandle(d, st) ==
    LET deleted == DeleteCollection(d)
    IN  IF deleted.raised # "none"
        THEN [raised |-> deleted.raised, db |-> d, store |-> st]
        ELSE [raised |-> "none", db |-> GetOrCreateCollection(deleted.db).db, store |-> st]

\* reset(): delete the collection, create it again, bind self.collection to it
ResetStore(d, st) ==
    LET deleted == DeleteCollection(d)
        created == GetOrCreateCollection(deleted.db)
    IN  IF deleted.raised # "none"
        THEN [raised |-> deleted.raised, db |-> d, store |-> st]
        ELSE [raised |-> "none", db |-> created.db,
              store |-> [st EXCEPT !.collection = created.collection]]

\* __init__ deleting the collection it finds and creating it again
OpenStoreRecreate(d, db_path, collection_name) ==
    LET created == GetOrCreateCollection(DeleteCollection(d).db)
    IN  [db |-> created.db,
         store |-> [db_path |-> db_path, collection_name |-> collection_name,
                    collection |-> created.collection]]

\* ConversationVectorStore(db_path, collection_name): __init__
OpenStore(d, db_path, collection_name) ==
    LET created == GetOrCreateCollection(d)
    IN  [db |-> created.db,
         store |-> [db_path |-> db_path, collection_name |-> collection_name,
                    collection |-> created.collection]]

\* a new ConversationVectorStore(db_path, collection_name) for the pair the
\* store was opened with
Open ==
    /\ LET opened == OpenStore(db, store.db_path, store.collection_name)
       IN  /\ db' = opened.db
           /\ store' = opened.store
           /\ last' = [op |-> "open", raised |-> "none", result |-> "none",
                       args |-> NoArgs, repeat |-> last.op = "open",
                       before |-> Count(db.records)]
    /\ UNCHANGED <<chunkVars, importVars>>

\* store.reset()
Reset ==
    /\ db.uid < MaxResets
    /\ LET out == ResetStore(db, store)
       IN  /\ db' = out.db
           /\ store' = out.store
           /\ last' = [op |-> "reset", raised |-> out.raised, result |-> "none",
                       args |-> NoArgs, repeat |-> FALSE,
                       before |-> Count(db.records)]
    /\ UNCHANGED <<chunkVars, importVars>>

Yes == <<"y", "e", "s">>

\* what the user types at the prompt of the reset command
Responses ==
    {Yes, <<"Y", "E", "S">>, <<"Y", "e", "s">>, <<"n", "o">>, <<"y">>, <<>>,
     <<"y", "e", "s", " ">>}

\* cmd_reset taking every response that "yes" starts with as a confirmation
CmdResetAcceptPrefix(yes, response) ==
    /\ yes => response = <<>>
    /\ IF ~yes /\ (Len(response) > Len(Yes)
                   \/ Lower(response) # SubSeq(Yes, 1, Min(Len(response), Len(Yes))))
       THEN /\ last' = [op |-> "cmd_reset", raised |-> "none", result |-> "Cancelled",
                        args |-> [yes |-> yes, response |-> response, opened |-> FALSE],
                        repeat |-> FALSE,
                        before |-> Count(db.records)]
            /\ UNCHANGED <<db, store>>
       ELSE /\ db.uid < MaxResets
            /\ LET opened == OpenStore(db, store.db_path, store.collection_name)
                   out == ResetStore(opened.db, opened.store)
               IN  /\ db' = out.db
                   /\ store' = out.store
                   /\ last' = [op |-> "cmd_reset", raised |-> out.raised,
                               result |-> "reset",
                               args |-> [yes |-> yes, response |-> response,
                                         opened |-> TRUE],
                               repeat |-> FALSE,
                               before |-> Count(db.records)]
    /\ UNCHANGED <<chunkVars, importVars>>

\* cmd_reset(args): args.yes, and the response typed when --yes is not given
CmdReset(yes, response) ==
    /\ yes => response = <<>>
    /\ IF ~yes /\ Lower(response) # Yes
       THEN /\ last' = [op |-> "cmd_reset", raised |-> "none", result |-> "Cancelled",
                        args |-> [yes |-> yes, response |-> response, opened |-> FALSE],
                        repeat |-> FALSE,
                        before |-> Count(db.records)]
            /\ UNCHANGED <<db, store>>
       ELSE /\ db.uid < MaxResets
            /\ LET opened == OpenStore(db, store.db_path, store.collection_name)
                   out == ResetStore(opened.db, opened.store)
               IN  /\ db' = out.db
                   /\ store' = out.store
                   /\ last' = [op |-> "cmd_reset", raised |-> out.raised,
                               result |-> "reset",
                               args |-> [yes |-> yes, response |-> response,
                                         opened |-> TRUE],
                               repeat |-> FALSE,
                               before |-> Count(db.records)]
    /\ UNCHANGED <<chunkVars, importVars>>

\* the importer before its first call
InitImporter ==
    /\ now = 0
    /\ imported = [op |-> "none", args |-> NoArgs, time |-> 0, raised |-> "none",
                   result |-> <<>>]

Init ==
    /\ InitStore
    /\ InitImporter
    /\ argConversation = SampleConversation(<<"a">>, 0, "x")
    /\ argChunkSize = DefaultChunkSize
    /\ argOverlap = DefaultOverlap
    /\ returned = NotCalled

Next ==
    \/ \E conversations \in ConversationLists :
          AddConversations(conversations, DefaultBatchSize, NoFault)
    \/ \E query \in Queries : \E n_results \in 1..MaxResults : \E where \in Filters :
          Search(query, n_results, where, NoFault)
    \/ GetStats
    \/ Open
    \/ Reset
    \/ \E yes \in BOOLEAN : \E response \in Responses : CmdReset(yes, response)

Spec == Init /\ [][Next]_vars

\* one add_conversations call on a new store, over the ids of IdLists
NextIds ==
    /\ last.op = "init"
    /\ \E conversations \in IdLists :
          AddConversations(conversations, DefaultBatchSize, NoFault)

SpecIds == Init /\ [][NextIds]_vars

\* imports of conversations whose texts hold special characters, and searches
NextText ==
    \/ \E conversations \in TextLists :
          AddConversations(conversations, DefaultBatchSize, NoFault)
    \/ \E query \in TextQueries : \E n_results \in 1..MaxResults :
          Search(query, n_results, NoFilter, NoFault)

SpecText == Init /\ [][NextText]_vars

\* imports in small batches and searches, the embedding model or the backend
\* failing in some of them
NextBatch ==
    \/ \E conversations \in BatchLists : \E batch_size \in BatchSizes :
       \E fault \in AddFaults :
          AddConversations(conversations, batch_size, fault)
    \/ \E query \in BatchQueries : \E n_results \in 1..MaxResults :
       \E fault \in SearchFaults :
          Search(query, n_results, NoFilter, fault)

SpecBatch == Init /\ [][NextBatch]_vars

----------------------------------------------------------------------------
(* Specification of the importer: its calls at the times of a clock *)

ConversationKeys == {"id", "title", "name", "created_at", "timestamp"}

MessageKeys == {"role", "sender", "content", "text", "timestamp", "created_at"}

\* the value the sample objects hold under a key: one text per key
SampleValue(key) ==
    CASE key = "id" -> JStr(<<"i", "1">>)
      [] key = "title" -> JStr(<<"T", "i">>)
      [] key = "name" -> JStr(<<"N", "a">>)
      [] key = "created_at" -> JStr(<<"c", "1">>)
      [] key = "timestamp" -> JStr(<<"t", "1">>)
      [] key = "role" -> JStr(<<"u", "s", "e", "r">>)
      [] key = "sender" -> JStr(<<"h", "u", "m", "a", "n">>)
      [] key = "content" -> JStr(<<"c", "o">>)
      [] key = "text" -> JStr(<<"t", "e">>)

\* a message object with the keys given
MessageObject(keys) == JDict([k \in keys |-> SampleValue(k)])

\* a conversation object with the keys given and its messages under messages_key
ConversationObject(keys, messages_key, messages) ==
    JDict((messages_key :> JList(messages)) @@ [k \in keys |-> SampleValue(k)])

FullMessage == MessageObject({"role", "content", "timestamp"})

\* {"name": "Chat A", "chat_messages": [{"sender": "human", "text": "hi"}]}
ScenarioConversation ==
    JDict([name |-> JStr(<<"C", "h", "a", "t", " ", "A">>),
           chat_messages |->
               JList(<<JDict([sender |-> JStr(<<"h", "u", "m", "a", "n">>),
                              text |-> JStr(<<"h", "i">>)])>>)])

\* a message with the role given
RoleMessage(role) == JDict([role |-> role, content |-> JStr(<<"c", "o">>)])

SourceRoles ==
    {JStr(<<"u", "s", "e", "r">>), JStr(<<"a", "s", "s", "i", "s", "t", "a", "n", "t">>),
     JStr(<<"s", "y", "s", "t", "e", "m">>), JStr(<<"u", "n", "k", "n", "o", "w", "n">>),
     JStr(<<"h", "u", "m", "a", "n">>), JStr(<<"t", "o", "o", "l">>), JStr(<<>>)}

\* blocks of a content list: text blocks, a block of another type, a plain
\* string, a text block with no text, a text block whose text is no string
TextBlock(text) == JDict([type |-> JStr(<<"t", "e", "x", "t">>), text |-> JStr(text)])

ContentLists ==
    {JList(<<>>),
     JList(<<TextBlock(<<"p">>)>>),
     JList(<<TextBlock(<<"p">>), JStr(<<"q">>), TextBlock(<<"r">>)>>),
     JList(<<TextBlock(<<"p">>),
             JDict([type |-> JStr(<<"i", "m", "a", "g", "e">>), text |-> JStr(<<"x">>)]),
             JStr(<<"q">>)>>),
     JList(<<JDict([type |-> JStr(<<"t", "e", "x", "t">>)]), JInt(7), TextBlock(<<"p">>)>>),
     JList(<<JDict([type |-> JStr(<<"t", "o", "o", "l">>)])>>)}

BadContentLists ==
    {JList(<<TextBlock(<<"p">>), JDict([type |-> JStr(<<"t", "e", "x", "t">>), text |-> JInt(7)])>>),
     JList(<<JDict([type |-> JStr(<<"t", "e", "x", "t">>), text |-> JNone])>>)}

\* conversation objects: every set of conversation keys, every set of message
\* keys, both or neither of the message lists, roles and content lists
ConversationObjects ==
    {ConversationObject(keys, "messages", <<FullMessage>>) : keys \in SUBSET ConversationKeys}
    \cup {ConversationObject({"id"}, "chat_messages", <<MessageObject(keys), FullMessage>>) :
             keys \in SUBSET MessageKeys}
    \cup {ScenarioConversation,
          JDict([title |-> JStr(<<"T", "i">>)]),
          JDict(("messages" :> JList(<<FullMessage, FullMessage>>))
                @@ ("chat_messages" :> JList(<<MessageObject({"sender", "text"})>>)))}
    \cup {ConversationObject({"id"}, "messages", <<FullMessage, RoleMessage(role)>>) :
             role \in SourceRoles}
    \cup {ConversationObject({"id"}, "messages",
                             <<JDict([role |-> JStr(<<"u", "s", "e", "r">>), content |-> content])>>) :
             content \in ContentLists}

\* values that are no conversation object, or hold what no message list or
\* message is
MalformedConversations ==
    {JStr(<<"x">>), JNone, JInt(7), JList(<<>>),
     JDict([id |-> JStr(<<"i", "1">>), messages |-> JNone]),
     JDict([id |-> JStr(<<"i", "1">>), messages |-> JStr(<<"a", "b">>)]),
     JDict([id |-> JStr(<<"i", "1">>), messages |-> JList(<<FullMessage, JStr(<<"h", "i">>)>>)]),
     JDict([id |-> JStr(<<"i", "1">>), messages |-> JDict([a |-> FullMessage])])}
    \cup {ConversationObject({"id"}, "messages",
                             <<JDict([role |-> JStr(<<"u", "s", "e", "r">>), content |-> content])>>) :
             content \in BadContentLists}

NoKeys == ConversationObject({}, "messages", <<FullMessage>>)

\* a conversation with none of the keys, its one message with none either
BareConversation == JDict([chat_messages |-> JList(<<JDict(<<>>)>>)])

\* conversations that hold their text themselves
SingleMessageConversations ==
    {JDict([id |-> JStr(<<"i", "1">>), text |-> JStr(<<"t", "e">>)]),
     JDict([id |-> JStr(<<"i", "1">>), content |-> JStr(<<"c", "o">>),
            sender |-> JStr(<<"h", "u", "m", "a", "n">>)]),
     JDict([text |-> JStr(<<"t", "e">>), content |-> JStr(<<"c", "o">>),
            created_at |-> JStr(<<"c", "1">>)]),
     JDict([messages |-> JList(<<>>), text |-> JStr(<<"t", "e">>)]),
     JDict([text |-> JStr(<<>>), content |-> JStr(<<"c", "o">>)])}

\* message j of a conversation whose messages are told apart by their content
NumberedMessage(j) ==
    JDict([role |-> JStr(IF j % 2 = 1 THEN <<"u", "s", "e", "r">>
                         ELSE <<"a", "s", "s", "i", "s", "t", "a", "n", "t">>),
           content |-> JStr(<<"m">> \o Str(j)),
           timestamp |-> JStr(<<"t">> \o Str(j))])

\* a conversation of n such messages
NumberedConversation(id, n) ==
    JDict([id |-> JStr(id), title |-> JStr(<<"T">> \o id),
           messages |-> JList([j \in 1..n |-> NumberedMessage(j)])])

\* the lists handed to _normalize_conversations
RawLists ==
    {<<>>}
    \cup {<<NumberedConversation(<<"b">>, 3), NumberedConversation(<<"a">>, 2)>>,
          <<NumberedConversation(<<"a">>, 2), NoKeys, NumberedConversation(<<"a">>, 2)>>}
    \cup {<<c>> : c \in ConversationObjects \cup MalformedConversations
                       \cup SingleMessageConversations}
    \cup {<<NoKeys, NoKeys>>,
          <<ScenarioConversation, BareConversation, JDict(<<>>)>>,
          <<NoKeys, JStr(<<"x">>), ScenarioConversation>>}

\* the files of the directories: two good ones, one that opens with an error,
\* one that is no JSON, one whose second conversation is no object, one that
\* does not match *.json
FileNameA == <<"a", ".", "j", "s", "o", "n">>

FileNameB == <<"b", ".", "j", "s", "o", "n">>

FileNameText == <<"c", ".", "t", "x", "t">>

DirectoryFiles ==
    {JsonFile(FileNameA, JList(<<ScenarioConversation, NoKeys>>)),
     JsonFile(FileNameB, JDict([conversations |-> JList(<<NoKeys>>)])),
     UnreadableFile(FileNameA),
     MalformedFile(FileNameB),
     JsonFile(FileNameB, JList(<<NoKeys, JStr(<<"x">>)>>)),
     JsonFile(FileNameText, JList(<<NoKeys>>))}

\* the files handed to import_from_json_export: the above, and the other
\* shapes of a parsed file
ExportFiles ==
    DirectoryFiles
    \cup {JsonFile(FileNameA, data) :
             data \in {JList(<<>>), ScenarioConversation, JInt(7), JNone, JStr(<<"a", "b">>),
                       JDict([conversations |-> JNone]),
                       JDict([conversations |-> JList(<<>>), id |-> JStr(<<"i", "1">>)]),
                       JDict([chats |-> JList(<<NoKeys>>)])}}

\* the directories: up to MaxFiles files in the order glob yields them
Directories ==
    UNION {[1..n -> DirectoryFiles] : n \in 0..MaxFiles}

\* a direct call of _normalize_conversations
NormalizeConversations(raw_conversations) ==
    /\ LET out == normalize_conversations(JList(raw_conversations), now)
       IN  imported' = [op |-> "normalize",
                        args |-> [raw_conversations |-> raw_conversations],
                        time |-> now, raised |-> out.raised, result |-> out.value]
    /\ UNCHANGED <<now, storeVars, chunkVars>>

ImportFromJsonExport(file) ==
    /\ LET out == import_from_json_export(file, now)
       IN  imported' = [op |-> "import_from_json_export", args |-> [file |-> file],
                        time |-> now, raised |-> out.raised, result |-> out.value]
    /\ UNCHANGED <<now, storeVars, chunkVars>>

ImportFromDirectory(files) ==
    /\ LET out == import_from_directory(files, now)
       IN  imported' = [op |-> "import_from_directory", args |-> [files |-> files],
                        time |-> now, raised |-> out.raised, result |-> out.value]
    /\ UNCHANGED <<now, storeVars, chunkVars>>

\* a file that does not exist
MissingFile(name) == [name |-> name, loads |-> Raise("FileNotFoundError")]

\* an object with a uuid and the fields given
WithUuid(fields) == JDict(("uuid" :> JStr(<<"u", "1">>)) @@ fields)

\* the files handed to load: the above, a missing one, and objects with and
\* without a uuid and the keys load tries
LoadFiles ==
    ExportFiles
    \cup {MissingFile(FileNameA)}
    \cup {JsonFile(FileNameA, data) :
             data \in {JDict([chats |-> JList(<<NoKeys, ScenarioConversation>>)]),
                       JDict([messages |-> JList(<<FullMessage>>)]),
                       JDict([data |-> JList(<<NoKeys>>), chats |-> JList(<<ScenarioConversation>>)]),
                       JDict([conversations |-> JStr(<<"x">>), data |-> JList(<<NoKeys>>)]),
                       JDict([data |-> JDict([a |-> NoKeys])]),
                       WithUuid(<<>>),
                       WithUuid([name |-> JStr(<<"N", "a">>)]),
                       WithUuid([conversations |-> JList(<<>>)]),
                       WithUuid([chats |-> JList(<<NoKeys>>)]),
                       WithUuid([chat_messages |-> JList(<<FullMessage>>)]),
                       JDict(<<>>)}}

\* the conversations handed to _extract_messages
ExtractInputs ==
    ConversationObjects \cup MalformedConversations \cup SingleMessageConversations
    \cup {JDict([content |-> JList(<<FullMessage, JStr(<<"h", "i">>), JInt(7)>>)]),
          JDict([messages |-> JStr(<<"x">>), chat_messages |-> JList(<<FullMessage>>)]),
          JDict([messages |-> JList(<<JDict([author |-> JStr(<<"b", "o", "t">>),
                                             role |-> JStr(<<>>),
                                             content |-> JInt(7)])>>)]),
          JStr(<<"t", "e", "x", "t">>),
          JList(<<JStr(<<"t", "e", "x", "t">>)>>),
          JList(<<JStr(<<"m", "e", "s", "s", "a", "g", "e", "s">>)>>)}

\* load of a new parser, whose self.conversations is the empty list
Load(file) ==
    /\ LET out == load(file, JList(<<>>))
       IN  imported' = [op |-> "load", args |-> [file |-> file],
                        time |-> now, raised |-> out.raised, result |-> out.value]
    /\ UNCHANGED <<now, storeVars, chunkVars>>

ExtractMessages(conversation) ==
    /\ LET out == extract_messages(conversation)
       IN  imported' = [op |-> "_extract_messages", args |-> [conversation |-> conversation],
                        time |-> now, raised |-> out.raised, result |-> out.value]
    /\ UNCHANGED <<now, storeVars, chunkVars>>

\* time passes
Tick ==
    /\ now < MaxClock
    /\ now' = now + 1
    /\ UNCHANGED <<imported, storeVars, chunkVars>>

\* one call of the importer at some time of the clock (the importer keeps no
\* state between its calls)
NextImport ==
    \/ \E raw_conversations \in RawLists :
          imported.op = "none" /\ NormalizeConversations(raw_conversations)
    \/ \E file \in ExportFiles :
          imported.op = "none" /\ ImportFromJsonExport(file)
    \/ \E files \in Directories :
          imported.op = "none" /\ ImportFromDirectory(files)
    \/ \E file \in LoadFiles :
          imported.op = "none" /\ Load(file)
    \/ \E conversation \in ExtractInputs :
          imported.op = "none" /\ ExtractMessages(conversation)
    \/ Tick

SpecImport == Init /\ [][NextImport]_vars

----------------------------------------------------------------------------
(* Specification of the import command: runs of cmd_import at the times of   *)
(* the clock                                                                 *)

\* a conversation object of n messages with no id, no title and no date
IdlessConversation(n) == JDict([messages |-> JList([j \in 1..n |-> NumberedMessage(j)])])

\* the export files of the runs: conversations without an id, conversations
\* with one, both, none, and a file that is no JSON
ReimportFiles ==
    {JsonFile(FileNameA, JList(<<IdlessConversation(MaxStoreMsgs)>>)),
     JsonFile(FileNameA, JList(<<IdlessConversation(1), IdlessConversation(MaxStoreMsgs)>>)),
     JsonFile(FileNameA, JList(<<NumberedConversation(<<"a">>, MaxStoreMsgs)>>)),
     JsonFile(FileNameA, JDict([conversations |->
                                   JList(<<NumberedConversation(<<"a">>, 1),
                                           IdlessConversation(1)>>)])),
     JsonFile(FileNameA, JList(<<>>)),
     MalformedFile(FileNameA)}

\* a normalized conversation whose fields are strings, as the store reads it
AsConversation(conversation) ==
    [id |-> conversation.id.text,
     title |-> conversation.title.text,
     created_at |-> conversation.created_at.text,
     messages |-> [j \in 1..Len(conversation.messages) |->
                      [role |-> conversation.messages[j].role.text,
                       content |-> conversation.messages[j].content.text,
                       timestamp |-> conversation.messages[j].timestamp.text]]]

\* the normalized conversations as the store reads them
AsConversations(conversations) ==
    [i \in 1..Len(conversations) |-> AsConversation(conversations[i])]

\* what a run computes from the file alone: the outcome of the import and the
\* lists add_conversations prepares from the conversations it returned
ImportRun(out) ==
    [out |-> out, p |-> PrepareAdd(AsConversations(out.value))]

\* ImportRun of every export file at every time of the clock, computed once
ImportRuns ==
    [run \in ReimportFiles \X (0..MaxClock) |->
        ImportRun(import_from_json_export(run[1], run[2]))] @@ <<>>

\* the number of runs of cmd_import so far
Runs == IF last.op = "cmd_import" THEN last.args.run ELSE 0

\* the end of cmd_import: an exception of the import ends the command, and so
\* does an import of no conversation (sys.exit(1)); otherwise the outcome is
\* that of add_conversations
CmdImportEnd(file, opened, out, p, exits, added) ==
    /\ imported' = [op |-> "import_from_json_export", args |-> [file |-> file],
                    time |-> now, raised |-> out.raised, result |-> out.value]
    /\ store' = opened.store
    /\ db' = IF exits THEN opened.db ELSE added.db
    /\ last' = [op |-> "cmd_import",
                raised |-> IF out.raised # "none" THEN out.raised
                           ELSE IF exits THEN "SystemExit"
                           ELSE added.raised,
                result |-> IF ~exits /\ added.raised = "none"
                           THEN Len(p.all_chunks) ELSE "none",
                args |-> [file |-> file, run |-> Runs + 1],
                repeat |-> last.op = "cmd_import" /\ last.args.file = file,
                before |-> Count(db.records)]
    /\ UNCHANGED <<now, chunkVars>>

\* cmd_import once the store is opened and the file imported: its
\* conversations are added with the default batch size
CmdImportAdd(file, opened, run) ==
    CmdImportEnd(file, opened, run.out, run.p,
                 run.out.raised # "none" \/ run.out.value = <<>>,
                 AddLoop(opened.db, opened.store.collection, run.p,
                         DefaultBatchSize, NoFault))

\* cmd_import(args) with args.file: the store is opened, the file imported and
\* its conversations added
CmdImport(file) ==
    CmdImportAdd(file, OpenStore(db, store.db_path, store.collection_name),
                 ImportRuns[<<file, now>>])

NextReimport ==
    \/ \E file \in ReimportFiles : Runs < MaxRuns /\ CmdImport(file)
    \/ Tick

SpecReimport == Init /\ [][NextReimport]_vars

----------------
(* Specification of the chunker: the arguments are drawn, then the call *)

InitChunk ==
    /\ \E n \in 0..MaxMsgs :
          \/ argConversation = SampleConversation(<<"a">>, n, "x")
          \/ argConversation = RoleConversation(<<"a">>, n)
    /\ argChunkSize \in 1..MaxChunkSize
    /\ argOverlap \in 0..MaxChunkSize
    /\ returned = NotCalled
    /\ InitStore
    /\ InitImporter

ChunkConversation ==
    /\ returned = NotCalled
    /\ returned' = chunk_conversation(argConversation, argChunkSize, argOverlap)
    /\ UNCHANGED <<argConversation, argChunkSize, argOverlap, db, store, last, importVars>>

NextChunk == ChunkConversation

SpecChunk == InitChunk /\ [][NextChunk]_vars

\* the call, once made, returns or raises: the caller is not held up
SpecChunkFair == InitChunk /\ [][NextChunk]_vars /\ WF_vars(ChunkConversation)

----------------------------------------------------------------------------
(* Claims about chunk_conversation (checked under SpecChunk) *)

\* the call returned, with arguments inside the contract 0 < overlap < chunk_size
ChunkedInContract ==
    /\ returned.raised = "none"
    /\ 0 < argOverlap
    /\ argOverlap < argChunkSize

NumMessages == Len(argConversation.messages)

\* ceil(a / b) for b > 0
CeilDiv(a, b) == -((-a) \div b)

\* C1 as stated: chunk_conversation returns ceil((n - overlap) / (chunk_size -
\* overlap)) chunks when n > 0 and 0 chunks when n = 0.
C1_ChunkCountAsStated ==
    ChunkedInContract =>
        Len(returned.chunks) =
            IF NumMessages > 0
            THEN CeilDiv(NumMessages - argOverlap, argChunkSize - argOverlap)
            ELSE 0

\* C1 amended: chunk_conversation returns ceil((n - overlap) / (chunk_size -
\* overlap)) chunks when n > overlap, exactly 1 chunk when 0 < n <= overlap, and
\* 0 chunks when n = 0.
C1_ChunkCount ==
    ChunkedInContract =>
        Len(returned.chunks) =
            IF NumMessages > argOverlap
            THEN CeilDiv(NumMessages - argOverlap, argChunkSize - argOverlap)
            ELSE IF NumMessages > 0 THEN 1
            ELSE 0

C1_Witness ==
    /\ ChunkedInContract
    /\ NumMessages > 0
    /\ NumMessages <= argOverlap
    /\ Len(returned.chunks) = 1

\* C2: the k-th chunk (from 0) has chunk_index k, message_start_idx
\* k * (chunk_size - overlap), message_end_idx min(start + chunk_size, n), and its
\* messages are the source messages of that half-open range; 5 messages with
\* chunk_size 3 and overlap 1 give the ranges [0,3) and [2,5).
C2_ChunkRanges ==
    ChunkedInContract =>
        /\ \A k \in 1..Len(returned.chunks) :
              LET chunk == returned.chunks[k]
                  start == (k - 1) * (argChunkSize - argOverlap)
                  end == Min(start + argChunkSize, NumMessages)
              IN  /\ chunk.chunk_index = k - 1
                  /\ chunk.message_start_idx = start
                  /\ chunk.message_end_idx = end
                  /\ chunk.messages =
                        [j \in 1..(end - start) |-> argConversation.messages[start + j]]
        /\ (NumMessages = 5 /\ argChunkSize = 3 /\ argOverlap = 1) =>
              [k \in 1..Len(returned.chunks) |->
                  <<returned.chunks[k].message_start_idx,
                    returned.chunks[k].message_end_idx>>]
              = << <<0, 3>>, <<2, 5>> >>

C2_Witness ==
    /\ ChunkedInContract
    /\ NumMessages = 5 /\ argChunkSize = 3 /\ argOverlap = 1
    /\ Len(returned.chunks) = 2
    /\ returned.chunks[2].message_start_idx = 2
    /\ returned.chunks[2].message_end_idx = 5

\* C3: no chunk is empty, every chunk but the last holds chunk_size messages and
\* has message_start_idx + chunk_size < n, and the last chunk ends at n.
C3_ChunkShape ==
    ChunkedInContract =>
        \A k \in 1..Len(returned.chunks) :
            LET chunk == returned.chunks[k]
            IN  /\ Len(chunk.messages) > 0
                /\ chunk.message_end_idx > chunk.message_start_idx
                /\ IF k < Len(returned.chunks)
                   THEN /\ Len(chunk.messages) = argChunkSize
                        /\ chunk.message_start_idx + argChunkSize < NumMessages
                   ELSE chunk.message_end_idx = NumMessages

C3_Witness ==
    /\ ChunkedInContract
    /\ Len(returned.chunks) >= 3
    /\ Len(returned.chunks[Len(returned.chunks)].messages) < argChunkSize

----------------------------------------------------------------------------
(* Claims about the store (checked under Spec, C6 under SpecIds) *)

\* the lists add_conversations prepared in the last call
LastPrepared == Prepared[last.args.conversations]

\* C4 as stated: when a record with id {conversation_id}_chunk_{chunk_index} is
\* stored and add_conversations is called with a chunk of that conversation_id
\* and chunk_index, the call succeeds and the document and metadata stored under
\* the id afterwards are those of the new chunk, with one record under the id.
C4_UpsertAsStated ==
    [][last'.op = "add" =>
          LET p == Prepared[last'.args.conversations]
          IN  ~HasDuplicates(p.ids) =>
                 \A j \in 1..Len(p.ids) :
                     p.ids[j] \in IdsOf(db.records) =>
                        /\ last'.raised = "none"
                        /\ \A r \in BagToSet(db'.records) :
                              r.id = p.ids[j] =>
                                 /\ r.document = p.texts[j]
                                 /\ r.metadata = p.metadatas[j]
                                 /\ CopiesIn(r, db'.records) = 1
                        /\ Cardinality({r \in BagToSet(db'.records) : r.id = p.ids[j]}) = 1
      ]_vars

\* C5: add_conversations called twice in a row with the same conversations
\* leaves get_stats().total_chunks at its value after the first call.
C5_ReimportKeepsCount ==
    (last.op = "add" /\ last.repeat) =>
        /\ last.raised = "none"
        /\ CollectionCount(db, store.collection) =
              [raised |-> "none", count |-> last.before]

C5_Witness ==
    /\ last.op = "add"
    /\ last.repeat
    /\ Len(last.args.conversations) = 2
    /\ last.before >= 3
    /\ Count(db.records) = last.before

\* C6: in one add_conversations call over conversations with pairwise distinct
\* ids the record ids are pairwise distinct, and two chunks get the same record
\* id exactly when they agree on conversation_id and chunk_index.
C6_RecordIdsDistinct ==
    last.op = "add" =>
        LET conversations == last.args.conversations
            p == LastPrepared
        IN  /\ (\A i, j \in 1..Len(conversations) :
                    i < j => conversations[i].id # conversations[j].id)
                => /\ ~HasDuplicates(p.ids)
                   /\ last.raised = "none"
                   /\ IdsOf(db.records) = {p.ids[j] : j \in 1..Len(p.ids)}
                   /\ Count(db.records) = Len(p.ids)
            /\ \A j, k \in 1..Len(p.ids) :
                  (p.ids[j] = p.ids[k]) <=>
                     /\ p.all_chunks[j].conversation_id = p.all_chunks[k].conversation_id
                     /\ p.all_chunks[j].chunk_index = p.all_chunks[k].chunk_index

C6_Witness ==
    /\ last.op = "add"
    /\ last.raised = "none"
    /\ Len(last.args.conversations) = 2
    /\ last.args.conversations[1].id = <<"a">>
    /\ last.args.conversations[2].id = <<"a", "_", "c", "h", "u", "n", "k", "_", "0">>
    /\ Count(db.records) = 4

\* C7: after reset() the collection exists again under the same name and
\* get_stats().total_chunks is 0, and the add_conversations, search or get_stats
\* that follows on the same store object works on the new empty collection.
C7_ResetEmpties ==
    [][/\ last'.op = "reset" =>
            /\ last'.raised = "none"
            /\ db'.exists
            /\ store'.collection_name = store.collection_name
            /\ CollectionCount(db', store'.collection) = [raised |-> "none", count |-> 0]
       /\ (last.op = "reset" /\ last'.op = "stats") =>
            /\ last'.raised = "none"
            /\ last'.result.total_chunks = 0
       /\ (last.op = "reset" /\ last'.op = "search") =>
            /\ last'.raised = "none"
            /\ last'.result = <<>>
       /\ (last.op = "reset" /\ last'.op = "add") =>
            LET p == Prepared[last'.args.conversations]
            IN  IF HasDuplicates(p.ids) THEN last'.raised = "DuplicateIDError"
                ELSE /\ last'.raised = "none"
                     /\ IdsOf(db'.records) = {p.ids[j] : j \in 1..Len(p.ids)}
                     /\ Count(db'.records) = Len(p.ids)
      ]_vars

C7_Witness ==
    /\ last.op = "reset"
    /\ last.before >= 3
    /\ Count(db.records) = 0
    /\ db.exists
    /\ store.collection = db.uid

\* the response is the word yes, in any mix of upper and lower case
IsYesIgnoringCase(response) ==
    /\ Len(response) = 3
    /\ response[1] \in {"y", "Y"}
    /\ response[2] \in {"e", "E"}
    /\ response[3] \in {"s", "S"}

\* C8: cmd_reset resets only if --yes was given or the response typed is yes in
\* any case; after any other response it returns without opening the store and
\* the records are unchanged.  reset() itself asks for no confirmation.
C8_ResetNeedsConfirmation ==
    [][/\ last'.op = "cmd_reset" =>
            IF last'.args.yes \/ IsYesIgnoringCase(last'.args.response)
            THEN /\ last'.args.opened
                 /\ last'.result = "reset"
                 /\ Count(db'.records) = 0
            ELSE /\ ~last'.args.opened
                 /\ last'.result = "Cancelled"
                 /\ db' = db
                 /\ store' = store
       /\ last'.op = "reset" =>
            /\ db'.uid # db.uid
            /\ Count(db'.records) = 0
      ]_vars

C8_Witness ==
    /\ last.op = "cmd_reset"
    /\ ~last.args.yes
    /\ last.args.response = <<"y">>
    /\ last.result = "Cancelled"
    /\ last.before >= 3
    /\ Count(db.records) = last.before

\* C9: search returns at most n_results results in ascending order of distance,
\* in the order and the number the backend query delivered them.
C9_SearchOrdered ==
    (last.op = "search" /\ last.raised = "none") =>
        LET result == last.result
            delivered == last.args.delivered.results
        IN  /\ Len(result) <= last.args.n_results
            /\ \A i \in 1..(Len(result) - 1) : result[i].distance <= result[i + 1].distance
            /\ Len(result) = Len(delivered.documents[1])
            /\ \A i \in 1..Len(result) :
                  /\ result[i].text = delivered.documents[1][i]
                  /\ result[i].distance = delivered.distances[1][i]
                  /\ result[i].distance = Distance(Embed(last.args.query), Embed(result[i].text))

C9_Witness ==
    /\ last.op = "search"
    /\ last.raised = "none"
    /\ last.args.n_results = 2
    /\ Count(db.records) > 2
    /\ Len(last.result) = 2
    /\ last.result[1].distance < last.result[2].distance

\* C10: a search on an empty collection, and a search whose backend query
\* delivers no documents, returns the empty list and raises nothing.
C10_EmptySearch ==
    /\ (last.op = "search" /\ Count(db.records) = 0) =>
          (last.raised = "none" /\ last.result = <<>>)
    /\ (last.op = "search" /\ last.args.delivered.raised = "none"
        /\ Len(last.args.delivered.results.documents[1]) = 0) =>
          (last.raised = "none" /\ last.result = <<>>)

C10_Witness ==
    /\ last.op = "search"
    /\ last.before = 0
    /\ db.uid > 0
    /\ last.args.n_results = 2
    /\ last.raised = "none"
    /\ last.result = <<>>

----------------------------------------------------------------------------
(* Claims about search results, opening and statistics *)

\* the chunk is held by the collection as add_conversations stores it
Stored(chunk) ==
    \E r \in BagToSet(db.records) :
        /\ r.id = RecordId(chunk)
        /\ r.document = chunk.text
        /\ r.embedding = Embed(chunk.text)
        /\ r.metadata = Metadata(chunk)

\* the search result is the chunk
IsChunk(result, chunk) ==
    /\ result.text = chunk.text
    /\ result.conversation_id = chunk.conversation_id
    /\ result.conversation_title = chunk.conversation_title
    /\ result.created_at = chunk.created_at
    /\ result.messages = chunk.messages

\* the last operation is an unfiltered search for the exact text of the chunk
SearchedFor(chunk) ==
    /\ last.op = "search"
    /\ last.args.where = NoFilter
    /\ last.args.query = chunk.text

\* the number of stored records whose document is the text
CopiesOfText(text) ==
    Cardinality({e \in Items(db.records) : e[1].document = text})

\* C11 as stated: after a chunk has been stored by add_conversations,
\* search(chunk text, k) contains that chunk among its results for every k >= 1
\* (the embedding is deterministic and maps distinct texts to distinct vectors).
C11_RoundTripAsStated ==
    \A chunk \in PreparedChunks :
        (Stored(chunk) /\ SearchedFor(chunk)) =>
            /\ last.raised = "none"
            /\ \E i \in 1..Len(last.result) : IsChunk(last.result[i], chunk)

\* C11 amended: after a chunk has been stored by add_conversations,
\* search(chunk text, k) returns for every k >= 1 a first result at distance 0
\* whose text is the chunk's text, and contains that chunk among its results
\* whenever at most k stored records carry that exact text.
C11_RoundTrip ==
    \A chunk \in PreparedChunks :
        (Stored(chunk) /\ SearchedFor(chunk)) =>
            /\ last.raised = "none"
            /\ Len(last.result) >= 1
            /\ last.result[1].text = chunk.text
            /\ last.result[1].distance = 0
            /\ CopiesOfText(chunk.text) <= last.args.n_results =>
                  \E i \in 1..Len(last.result) : IsChunk(last.result[i], chunk)

C11_Witness ==
    /\ last.op = "search"
    /\ last.args.where = NoFilter
    /\ last.args.n_results = 1
    /\ Count(db.records) >= 3
    /\ \E chunk \in PreparedChunks :
          /\ Stored(chunk)
          /\ last.args.query = chunk.text
          /\ CopiesOfText(chunk.text) = 1
          /\ Len(last.result) = 1
          /\ IsChunk(last.result[1], chunk)

\* C12: every result returned by search reconstructs the stored chunk: its text
\* is the chunk text, its conversation_id, conversation_title and created_at
\* are those of the source conversation, and its messages are the slice
\* messages[message_start_idx:message_end_idx] of the source conversation (the
\* slice serialized at add time and deserialized at search time is unchanged).
C12_ResultReconstructs ==
    last.op = "search" =>
        /\ last.raised = "none"
        /\ \A i \in 1..Len(last.result) :
              LET result == last.result[i]
                  metadata == last.args.delivered.results.metadatas[1][i]
              IN  /\ \E r \in BagToSet(db.records) :
                        r.document = result.text /\ r.metadata = metadata
                  /\ \E conversation \in TextConversations :
                        /\ result.conversation_id = conversation.id
                        /\ result.conversation_title = conversation.title
                        /\ result.created_at = conversation.created_at
                        /\ result.messages =
                              Slice(conversation.messages,
                                    metadata.message_start_idx, metadata.message_end_idx)
                        /\ result.text = ChunkText(result.messages)

C12_Witness ==
    /\ last.op = "search"
    /\ last.raised = "none"
    /\ Len(last.result) = 2
    /\ Len(last.result[1].messages) = 1
    /\ last.result[1].messages[1].content = <<"\"", "1">>
    /\ Len(last.result[2].messages) = 2
    /\ last.result[2].messages[2].content = <<"\\", "4">>

\* C13: constructing a ConversationVectorStore for a (db_path, collection_name)
\* pair that already holds records reopens that collection and creates none:
\* the records and get_stats().total_chunks seen through the new object are
\* those before the open, for any number of repeated opens.
C13_OpenIdempotent ==
    [][last'.op = "open" =>
          /\ last'.raised = "none"
          /\ db'.uid = db.uid
          /\ db'.records = db.records
          /\ store'.collection = db.uid
          /\ store'.db_path = store.db_path
          /\ store'.collection_name = store.collection_name
          /\ CollectionCount(db', store'.collection) =
                [raised |-> "none", count |-> Count(db.records)]
      ]_vars

C13_Witness ==
    /\ last.op = "open"
    /\ last.repeat
    /\ last.before >= 3
    /\ Count(db.records) = last.before
    /\ db.uid > 0

\* C14: after any sequence of add_conversations and reset calls
\* get_stats().total_chunks is the number of records the collection holds, and
\* get_stats reports the collection_name and db_path the store was opened with.
C14_StatsCountsRecords ==
    last.op = "stats" =>
        /\ last.raised = "none"
        /\ last.result.total_chunks = Count(db.records)
        /\ last.result.total_chunks = Cardinality(IdsOf(db.records))
        /\ last.result.collection_name = "claude_conversations"
        /\ last.result.db_path = "./chroma_db"

C14_Witness ==
    /\ last.op = "stats"
    /\ db.uid > 0
    /\ last.result.total_chunks = 4
    /\ Cardinality({r.metadata.conversation_id : r \in BagToSet(db.records)}) = 2

----------------------------------------------------------------------------
(* Claims about batches and failures (checked under SpecBatch) *)

\* the concatenation of a sequence of sequences
RECURSIVE Flatten(_)
Flatten(seqs) == IF Len(seqs) = 0 THEN <<>> ELSE Head(seqs) \o Flatten(Tail(seqs))

IsEncodeCall(c) == c.call = "encode"

IsAddCall(c) == c.call = "add"

\* C15: add_conversations sends the chunks to the backend in consecutive
\* batches of at most batch_size: the batches partition the chunk list in
\* order, each chunk is embedded and added in exactly one batch, every batch
\* but the last has exactly batch_size chunks, no backend call is made when
\* there are zero chunks, and the value returned is the total number of chunks.
C15_Batches ==
    (last.op = "add" /\ last.args.batch_size >= 1 /\ last.raised = "none") =>
        LET p == LastPrepared
            batch_size == last.args.batch_size
            calls == last.args.calls
            encodes == SelectSeq(calls, IsEncodeCall)
            adds == SelectSeq(calls, IsAddCall)
        IN  /\ Len(encodes) = Len(adds)
            /\ Len(adds) = CeilDiv(Len(p.all_chunks), batch_size)
            /\ \A k \in 1..Len(adds) : calls[2 * k - 1] = encodes[k] /\ calls[2 * k] = adds[k]
            /\ Flatten([k \in 1..Len(encodes) |-> encodes[k].texts])
                  = [j \in 1..Len(p.all_chunks) |-> p.all_chunks[j].text]
            /\ Flatten([k \in 1..Len(adds) |-> adds[k].ids])
                  = [j \in 1..Len(p.all_chunks) |-> RecordId(p.all_chunks[j])]
            /\ Flatten([k \in 1..Len(adds) |-> adds[k].documents])
                  = [j \in 1..Len(p.all_chunks) |-> p.all_chunks[j].text]
            /\ \A k \in 1..Len(adds) :
                  /\ Len(adds[k].ids) >= 1
                  /\ Len(adds[k].ids) <= batch_size
                  /\ k < Len(adds) => Len(adds[k].ids) = batch_size
                  /\ adds[k].embeddings = Encode(encodes[k].texts)
                  /\ adds[k].documents = encodes[k].texts
            /\ Len(p.all_chunks) = 0 => calls = <<>>
            /\ last.result = Len(p.all_chunks)

C15_Witness ==
    /\ last.op = "add"
    /\ last.raised = "none"
    /\ last.args.batch_size = 3
    /\ last.result = 4
    /\ Len(last.args.calls) = 4
    /\ Len(last.args.calls[2].ids) = 3
    /\ Len(last.args.calls[4].ids) = 1
    /\ Count(db.records) = 4

\* the failure is set for a call that add_conversations makes
FaultHits(args) ==
    /\ args.fault # NoFault
    /\ args.batch_size >= 1
    /\ args.fault.batch * args.batch_size < Len(Prepared[args.conversations].ids)

FaultError(fault) == IF fault.call = "encode" THEN "EmbeddingError" ELSE "BackendError"

\* C16: a failure of the embedding call or of the backend add during batch j
\* of add_conversations is not caught: it propagates to the caller, no batch
\* after j is embedded or stored, and the records of the batches before j stay
\* in the store.  A failure during search propagates as well.
C16_FailurePropagates ==
    [][/\ (last'.op = "add" /\ FaultHits(last'.args)) =>
            /\ last'.raised # "none"
            /\ last'.result = "none"
            /\ last'.raised # "DuplicateIDError" =>
                  LET calls == last'.args.calls
                  IN  /\ last'.raised = FaultError(last'.args.fault)
                      /\ calls[Len(calls)].call = last'.args.fault.call
                      /\ calls[Len(calls)].start =
                            last'.args.fault.batch * last'.args.batch_size
       /\ (last'.op = "add" /\ last'.args.batch_size >= 1 /\ last'.raised # "none") =>
            LET calls == last'.args.calls
                n == Len(calls)
                done == {k \in 1..(n - 1) : calls[k].call = "add"}
            IN  /\ n >= 1
                /\ calls[n].raised = last'.raised
                /\ \A k \in 1..(n - 1) :
                      calls[k].raised = "none" /\ calls[k].start <= calls[n].start
                /\ \A k \in done : calls[k].start < calls[n].start
                /\ IdsOf(db'.records) =
                      IdsOf(db.records)
                      \cup UNION {{calls[k].ids[j] : j \in 1..Len(calls[k].ids)} : k \in done}
                /\ \A r \in BagToSet(db.records) :
                      CopiesIn(r, db'.records) = CopiesIn(r, db.records)
                /\ Count(db'.records) = Cardinality(IdsOf(db'.records))
       /\ (last'.op = "search" /\ last'.args.fault # NoFault) =>
            /\ last'.raised = FaultError(last'.args.fault)
            /\ last'.result = <<>>
            /\ db' = db
      ]_vars

C16_Witness ==
    /\ last.op = "add"
    /\ last.raised = "BackendError"
    /\ last.args.batch_size = 1
    /\ last.args.fault = [batch |-> 1, call |-> "add"]
    /\ Len(LastPrepared.ids) = 4
    /\ last.before = 0
    /\ Count(db.records) = 1
    /\ Len(last.args.calls) = 4

----------------------------------------------------------------------------
(* Claims about the importer (checked under SpecImport) *)

\* the value under the first of the keys the object holds, else the default
RECURSIVE FirstPresent(_, _, _)
FirstPresent(obj, keys, default) ==
    IF Len(keys) = 0 THEN default
    ELSE IF Head(keys) \in DOMAIN obj.fields THEN obj.fields[Head(keys)]
    ELSE FirstPresent(obj, Tail(keys), default)

\* what import_from_json_export returns for the file when it returns, else
\* no conversations
ConversationsOf(file, t) ==
    LET out == import_from_json_export(file, t)
    IN  IF MatchesJson(file.name) /\ out.raised = "none" THEN out.value ELSE <<>>

\* C17: import_from_directory never raises because of an unreadable or
\* malformed file: it returns the concatenation of the normalized conversations
\* of every *.json file that imports, and a failing file contributes none.
C17_DirectoryImportTolerant ==
    imported.op = "import_from_directory" =>
        LET files == imported.args.files
        IN  /\ imported.raised = "none"
            /\ imported.result =
                  Flatten([j \in 1..Len(files) |-> ConversationsOf(files[j], imported.time)])
            /\ \A j \in 1..Len(files) :
                  (files[j].loads.raised # "none"
                   \/ \E k \in 1..Len(files[j].loads.value.items) :
                         files[j].loads.value.items[k].type # "dict")
                  => ConversationsOf(files[j], imported.time) = <<>>

C17_Witness ==
    /\ imported.op = "import_from_directory"
    /\ Len(imported.args.files) = 3
    /\ imported.args.files[1].loads.raised = "none"
    /\ imported.args.files[1].name = FileNameA
    /\ imported.args.files[2].loads.raised = "JSONDecodeError"
    /\ imported.args.files[3].loads.raised = "none"
    /\ imported.args.files[3].name = FileNameB
    /\ imported.raised = "none"
    /\ Len(imported.result) = 3

\* the blocks of a content list whose text the importer joins are strings
GoodBlocks(content) ==
    \A j \in 1..Len(content.items) :
        LET block == content.items[j]
        IN  (block.type = "dict" /\ Get(block, "type", JNone) = JStr(<<"t", "e", "x", "t">>))
            => Get(block, "text", JStr(<<>>)).type = "str"

\* the list of messages of a conversation object, when it is a list
MessageList(convo) == FirstPresent(convo, <<"messages", "chat_messages">>, JList(<<>>))

\* the raw conversations are objects whose messages are a list of objects, the
\* content of a message a string or a list of blocks: fields may be missing,
\* and those present hold what the importer expects
ObjectsOnly(raw_conversations) ==
    \A i \in 1..Len(raw_conversations) :
        LET convo == raw_conversations[i]
        IN  /\ convo.type = "dict"
            /\ MessageList(convo).type = "list"
            /\ \A j \in 1..Len(MessageList(convo).items) :
                  LET msg == MessageList(convo).items[j]
                  IN  /\ msg.type = "dict"
                      /\ LET content == FirstPresent(msg, <<"content", "text">>, JStr(<<>>))
                         IN  content.type = "list" => GoodBlocks(content)

\* C18: normalization never raises on a missing field: for conversation and
\* message objects lacking any of id, title, created_at, role or content,
\* _normalize_conversations returns conversations with every one of these
\* fields filled from its fallback default.
C18_MissingFieldsFilled ==
    (imported.op = "normalize" /\ ObjectsOnly(imported.args.raw_conversations)) =>
        LET raw == imported.args.raw_conversations
            t == imported.time
        IN  /\ imported.raised = "none"
            /\ Len(imported.result) = Len(raw)
            /\ \A i \in 1..Len(raw) :
                  LET convo == raw[i]
                      conversation == imported.result[i]
                  IN  /\ "id" \notin DOMAIN convo.fields =>
                            conversation.id = JStr(FallbackId(i - 1, t))
                      /\ DOMAIN convo.fields \cap {"title", "name"} = {} =>
                            conversation.title = JStr(FallbackTitle(i - 1))
                      /\ DOMAIN convo.fields \cap {"created_at", "timestamp"} = {} =>
                            conversation.created_at = JStr(IsoFormat(t))
                      /\ Len(conversation.messages) = Len(MessageList(convo).items)
                      /\ \A j \in 1..Len(conversation.messages) :
                            LET msg == MessageList(convo).items[j]
                                message == conversation.messages[j]
                            IN  /\ DOMAIN msg.fields \cap {"role", "sender"} = {} =>
                                      message.role = JStr(<<"u", "n", "k", "n", "o", "w", "n">>)
                                /\ DOMAIN msg.fields \cap {"content", "text"} = {} =>
                                      message.content = JStr(<<>>)
                                /\ DOMAIN msg.fields \cap {"timestamp", "created_at"} = {} =>
                                      message.timestamp = JStr(<<>>)

C18_Witness ==
    /\ imported.op = "normalize"
    /\ imported.time = 1
    /\ Len(imported.args.raw_conversations) = 3
    /\ imported.args.raw_conversations[2] = BareConversation
    /\ imported.raised = "none"
    /\ imported.result[2].id = JStr(<<"c", "o", "n", "v", "_", "1", "_", "1", ".", "0">>)
    /\ imported.result[2].title =
          JStr(<<"C", "o", "n", "v", "e", "r", "s", "a", "t", "i", "o", "n", " ", "2">>)
    /\ imported.result[2].created_at =
          JStr(<<"1", "9", "7", "0", "-", "0", "1", "-", "0", "1", "T",
                 "0", "0", ":", "0", "0", ":", "0", "1">>)
    /\ imported.result[2].messages =
          <<[role |-> JStr(<<"u", "n", "k", "n", "o", "w", "n">>),
             content |-> JStr(<<>>), timestamp |-> JStr(<<>>)]>>

\* C19: field resolution is first-present-wins over an ordered candidate list:
\* id is 'id' else conv_<index>_<time>; title is 'title' else 'name' else
\* 'Conversation <index+1>'; created_at is 'created_at' else 'timestamp' else the
\* current time; per message role is 'role' else 'sender' else 'unknown',
\* content is 'content' else 'text' else empty, timestamp is 'timestamp' else
\* 'created_at' else empty.  {"name": "Chat A", "chat_messages": [{"sender":
\* "human", "text": "hi"}]} gives title 'Chat A' and one message of role 'human'
\* and content 'hi'.
C19_FirstPresentWins ==
    (imported.op = "normalize" /\ ObjectsOnly(imported.args.raw_conversations)) =>
        LET raw == imported.args.raw_conversations
            t == imported.time
        IN  /\ imported.raised = "none"
            /\ Len(imported.result) = Len(raw)
            /\ \A i \in 1..Len(raw) :
                  LET convo == raw[i]
                      conversation == imported.result[i]
                  IN  /\ conversation.id =
                            FirstPresent(convo, <<"id">>, JStr(FallbackId(i - 1, t)))
                      /\ conversation.title =
                            FirstPresent(convo, <<"title", "name">>, JStr(FallbackTitle(i - 1)))
                      /\ conversation.created_at =
                            FirstPresent(convo, <<"created_at", "timestamp">>, JStr(IsoFormat(t)))
                      /\ Len(conversation.messages) = Len(MessageList(convo).items)
                      /\ \A j \in 1..Len(conversation.messages) :
                            LET msg == MessageList(convo).items[j]
                                message == conversation.messages[j]
                                content == FirstPresent(msg, <<"content", "text">>, JStr(<<>>))
                            IN  /\ message.role =
                                      FirstPresent(msg, <<"role", "sender">>,
                                                   JStr(<<"u", "n", "k", "n", "o", "w", "n">>))
                                /\ content.type # "list" => message.content = content
                                /\ message.timestamp =
                                      FirstPresent(msg, <<"timestamp", "created_at">>, JStr(<<>>))
                      /\ convo = ScenarioConversation =>
                            /\ conversation.title = JStr(<<"C", "h", "a", "t", " ", "A">>)
                            /\ Len(conversation.messages) = 1
                            /\ conversation.messages[1].role = JStr(<<"h", "u", "m", "a", "n">>)
                            /\ conversation.messages[1].content = JStr(<<"h", "i">>)

C19_Witness ==
    /\ imported.op = "normalize"
    /\ imported.args.raw_conversations = <<ScenarioConversation>>
    /\ imported.time = 2
    /\ imported.raised = "none"
    /\ imported.result =
          <<[id |-> JStr(<<"c", "o", "n", "v", "_", "0", "_", "2", ".", "0">>),
             created_at |-> JStr(IsoFormat(2)),
             title |-> JStr(<<"C", "h", "a", "t", " ", "A">>),
             messages |-> <<[role |-> JStr(<<"h", "u", "m", "a", "n">>),
                             content |-> JStr(<<"h", "i">>),
                             timestamp |-> JStr(<<>>)]>>]>>

\* the roles of a normalized message
KnownRoles ==
    {JStr(<<"u", "s", "e", "r">>), JStr(<<"a", "s", "s", "i", "s", "t", "a", "n", "t">>),
     JStr(<<"s", "y", "s", "t", "e", "m">>), JStr(<<"u", "n", "k", "n", "o", "w", "n">>)}

\* C20 as stated: every message produced by normalization has a role in the set
\* {user, assistant, system, unknown}; a source role outside that set is stored
\* as unknown.
C20_RolesAsStated ==
    (imported.op = "normalize" /\ imported.raised = "none") =>
        \A i \in 1..Len(imported.result) :
            \A j \in 1..Len(imported.result[i].messages) :
                imported.result[i].messages[j].role \in KnownRoles

----------------------------------------------------------------------------
(* Claims about the resolution of the conversation list and of the message  *)
(* list (checked under SpecImport)                                          *)

\* the conversation list of a parsed value: the value itself when it is a
\* list, else the value under the first container key present, else the value
\* as the one conversation
ResolvedList(data) ==
    IF data.type = "list" THEN data
    ELSE FirstPresent(data, ContainerKeys, JList(<<data>>))

\* the parsed value is a list or an object whose container keys hold lists
ListOrContainer(data) ==
    /\ data.type \in {"list", "dict"}
    /\ \A j \in 1..Len(ContainerKeys) :
          ContainerKeys[j] \in DOMAIN data.fields => data.fields[ContainerKeys[j]].type = "list"

\* C21 as stated: the conversation list of an input value is the value itself
\* when it is a top-level array, otherwise the list under the first present of
\* the container keys, otherwise the single object as one conversation;
\* import_from_json_export normalizes that list and load keeps it, so an
\* object holding its conversations under a container key is never imported as
\* one conversation.
C21_ResolutionAsStated ==
    /\ (/\ imported.op = "import_from_json_export"
        /\ imported.args.file.loads.raised = "none"
        /\ ListOrContainer(imported.args.file.loads.value)) =>
           LET expected == normalize_conversations(
                               ResolvedList(imported.args.file.loads.value), imported.time)
           IN  /\ imported.raised = expected.raised
               /\ imported.result = expected.value
    /\ (/\ imported.op = "load"
        /\ imported.args.file.loads.raised = "none"
        /\ ListOrContainer(imported.args.file.loads.value)) =>
           /\ imported.raised = "none"
           /\ imported.result.conversations = ResolvedList(imported.args.file.loads.value)

\* the conversation object has none of the keys of a message list and holds
\* text or content itself, as a string
HoldsTextItself(convo) ==
    /\ convo.type = "dict"
    /\ DOMAIN convo.fields \cap {"messages", "chat_messages"} = {}
    /\ DOMAIN convo.fields \cap {"text", "content"} # {}
    /\ \A k \in DOMAIN convo.fields \cap {"text", "content"} : convo.fields[k].type = "str"

\* the messages are one message whose content is the text or the content of
\* the conversation object
OneMessageOf(messages, convo) ==
    /\ Len(messages) = 1
    /\ \E k \in DOMAIN convo.fields \cap {"text", "content"} :
          messages[1].content = convo.fields[k]

\* C22 as stated: the message list of a conversation is taken from the first
\* present candidate container key; when none is present and the conversation
\* object itself carries 'text' or 'content', it is normalized to a
\* conversation with exactly one message holding that text, not to a
\* conversation with zero messages.
C22_MessageListAsStated ==
    /\ (imported.op = "normalize" /\ ObjectsOnly(imported.args.raw_conversations)) =>
           /\ imported.raised = "none"
           /\ Len(imported.result) = Len(imported.args.raw_conversations)
           /\ \A i \in 1..Len(imported.result) :
                 LET convo == imported.args.raw_conversations[i]
                 IN  /\ DOMAIN convo.fields \cap {"messages", "chat_messages"} # {} =>
                           Len(imported.result[i].messages) = Len(MessageList(convo).items)
                     /\ HoldsTextItself(convo) =>
                           OneMessageOf(imported.result[i].messages, convo)
    /\ (imported.op = "_extract_messages" /\ HoldsTextItself(imported.args.conversation)) =>
           /\ imported.raised = "none"
           /\ OneMessageOf(imported.result, imported.args.conversation)

----------------------------------------------------------------------------
(* Claims about the content and the order of the normalized messages        *)
(* (checked under SpecImport)                                               *)

\* the block bears text: a plain string, or an object tagged type 'text'
TextBearing(block) ==
    \/ block.type = "str"
    \/ /\ block.type = "dict"
       /\ "type" \in DOMAIN block.fields
       /\ block.fields["type"] = JStr(<<"t", "e", "x", "t">>)

\* the text of a text-bearing block (empty when an object has none)
BlockText(block) ==
    IF block.type = "str" THEN block.text
    ELSE IF "text" \in DOMAIN block.fields THEN block.fields["text"].text
    ELSE <<>>

\* the texts of the text-bearing blocks in their order, a newline between two
RECURSIVE NewlineJoined(_)
NewlineJoined(blocks) ==
    IF Len(blocks) = 0 THEN <<>>
    ELSE IF ~TextBearing(Head(blocks)) THEN NewlineJoined(Tail(blocks))
    ELSE BlockText(Head(blocks))
         \o (IF \E j \in 2..Len(blocks) : TextBearing(blocks[j]) THEN <<"\n">> ELSE <<>>)
         \o NewlineJoined(Tail(blocks))

\* C23: when a message's content is a list of blocks, the normalized content
\* is the texts of the text-bearing blocks (objects tagged type 'text', and
\* plain strings) in their original order joined by a newline; every other
\* block is dropped, and a list with no text-bearing block yields the empty
\* string.
C23_ContentFlattened ==
    (imported.op = "normalize" /\ ObjectsOnly(imported.args.raw_conversations)) =>
        /\ imported.raised = "none"
        /\ Len(imported.result) = Len(imported.args.raw_conversations)
        /\ \A i \in 1..Len(imported.result) :
              LET source == MessageList(imported.args.raw_conversations[i]).items
                  messages == imported.result[i].messages
              IN  /\ Len(messages) = Len(source)
                  /\ \A j \in 1..Len(source) :
                        LET content == FirstPresent(source[j], <<"content", "text">>, JStr(<<>>))
                        IN  content.type = "list" =>
                               /\ messages[j].content = JStr(NewlineJoined(content.items))
                               /\ (\A k \in 1..Len(content.items) :
                                       ~TextBearing(content.items[k])) =>
                                      messages[j].content = JStr(<<>>)

C23_Witness ==
    /\ imported.op = "normalize"
    /\ imported.raised = "none"
    /\ Len(imported.args.raw_conversations) = 1
    /\ LET convo == imported.args.raw_conversations[1]
       IN  /\ convo.type = "dict"
           /\ "messages" \in DOMAIN convo.fields
           /\ convo.fields["messages"].type = "list"
           /\ Len(convo.fields["messages"].items) = 1
           /\ "content" \in DOMAIN convo.fields["messages"].items[1].fields
           /\ convo.fields["messages"].items[1].fields["content"] =
                 JList(<<TextBlock(<<"p">>),
                         JDict([type |-> JStr(<<"i", "m", "a", "g", "e">>), text |-> JStr(<<"x">>)]),
                         JStr(<<"q">>)>>)
    /\ imported.result[1].messages[1].content = JStr(<<"p", "\n", "q">>)

\* the content of a normalized message for the source content given: a list
\* flattened, any other value as it is
FlatContent(content) ==
    IF content.type = "list" THEN JStr(NewlineJoined(content.items)) ELSE content

\* C24: normalization preserves order and count: _normalize_conversations
\* returns exactly one conversation per input conversation in input order, and
\* each normalized conversation's messages are the source messages in source
\* order, none dropped, duplicated or reordered.
C24_OrderAndCountPreserved ==
    (imported.op = "normalize" /\ ObjectsOnly(imported.args.raw_conversations)) =>
        LET raw == imported.args.raw_conversations
        IN  /\ imported.raised = "none"
            /\ Len(imported.result) = Len(raw)
            /\ \A i \in 1..Len(raw) :
                  LET source == MessageList(raw[i]).items
                      messages == imported.result[i].messages
                  IN  /\ "id" \in DOMAIN raw[i].fields =>
                            imported.result[i].id = raw[i].fields["id"]
                      /\ "id" \notin DOMAIN raw[i].fields =>
                            imported.result[i].id = JStr(FallbackId(i - 1, imported.time))
                      /\ Len(messages) = Len(source)
                      /\ \A j \in 1..Len(source) :
                            /\ messages[j].content =
                                  FlatContent(FirstPresent(source[j], <<"content", "text">>,
                                                           JStr(<<>>)))
                            /\ messages[j].role =
                                  FirstPresent(source[j], <<"role", "sender">>,
                                               JStr(<<"u", "n", "k", "n", "o", "w", "n">>))

C24_Witness ==
    /\ imported.op = "normalize"
    /\ imported.raised = "none"
    /\ imported.args.raw_conversations =
          <<NumberedConversation(<<"b">>, 3), NumberedConversation(<<"a">>, 2)>>
    /\ Len(imported.result) = 2
    /\ imported.result[1].id = JStr(<<"b">>)
    /\ imported.result[2].id = JStr(<<"a">>)
    /\ [j \in 1..3 |-> imported.result[1].messages[j].content.text] =
          <<(<<"m", "1">>), (<<"m", "2">>), (<<"m", "3">>)>>
    /\ [j \in 1..2 |-> imported.result[2].messages[j].content.text] =
          <<(<<"m", "1">>), (<<"m", "2">>)>>

----------------------------------------------------------------------------
(* Further claims about chunk_conversation (checked under SpecChunk) *)

\* rendered is the role with its first letter capitalized: the same letters,
\* the first of them in upper case
IsCapitalized(rendered, role) ==
    /\ Len(rendered) = Len(role)
    /\ \A j \in 1..Len(role) : LowerChar(rendered[j]) = LowerChar(role[j])
    /\ Len(role) > 0 => rendered[1] = UpperChar(role[1])

\* text from position pos on is the messages, each as its capitalized role, a
\* colon, a space and its content, two newlines between two of them and
\* nothing after the last
RECURSIVE RendersFrom(_, _, _)
RendersFrom(text, pos, messages) ==
    IF Len(messages) = 0 THEN pos = Len(text) + 1
    ELSE LET msg == Head(messages)
             colon == pos + Len(msg.role)
             content == colon + 2
             after == content + Len(msg.content)
         IN  /\ after <= Len(text) + 1
             /\ IsCapitalized(SubSeq(text, pos, colon - 1), msg.role)
             /\ SubSeq(text, colon, content - 1) = <<":", " ">>
             /\ SubSeq(text, content, after - 1) = msg.content
             /\ IF Len(messages) = 1 THEN after = Len(text) + 1
                ELSE /\ after + 1 <= Len(text)
                     /\ SubSeq(text, after, after + 1) = <<"\n", "\n">>
                     /\ RendersFrom(text, after + 2, Tail(messages))

----------------------------------------------------------------------------
(* Claim about repeated imports (checked under SpecReimport) *)

\* the conversation objects of an export file that is a list or holds one
\* under 'conversations'
FileConversations(file) ==
    IF file.loads.value.type = "list" THEN file.loads.value.items
    ELSE file.loads.value.fields["conversations"].items

\* the file parses and none of its conversations has an id
IdlessFile(file) ==
    /\ file.loads.raised = "none"
    /\ \A i \in 1..Len(FileConversations(file)) :
          "id" \notin DOMAIN FileConversations(file)[i].fields

\* C26: for a conversation with no source id, two import runs of the same
\* input at different times synthesize different ids, so the record ids of the
\* second run do not collide with those of the first and importing it twice
\* stores twice the records: a run that follows a run of the same id-less
\* file on an empty store, at another time, doubles the records and gives
\* every conversation an id no conversation of the first run has.
C26_ReimportDoubles ==
    [][(/\ last.op = "cmd_import" /\ last.raised = "none" /\ last.before = 0
        /\ last'.op = "cmd_import" /\ last'.raised = "none"
        /\ last'.args.file = last.args.file
        /\ IdlessFile(last.args.file)
        /\ imported'.time # imported.time)
       => /\ Len(imported'.result) = Len(imported.result)
          /\ \A i, j \in 1..Len(imported.result) :
                imported'.result[i].id # imported.result[j].id
          /\ IdsOf(db.records) \subseteq IdsOf(db'.records)
          /\ Cardinality(IdsOf(db'.records)) = 2 * Cardinality(IdsOf(db.records))
          /\ Count(db'.records) = 2 * Count(db.records)
          /\ last'.result = last.result]_vars

C26_Witness ==
    /\ last.op = "cmd_import"
    /\ last.raised = "none"
    /\ last.args.run = 2
    /\ last.repeat
    /\ last.args.file = JsonFile(FileNameA, JList(<<IdlessConversation(MaxStoreMsgs)>>))
    /\ imported.time = 2
    /\ imported.result[1].id = JStr(<<"c", "o", "n", "v", "_", "0", "_", "2", ".", "0">>)
    /\ last.before > 0
    /\ Count(db.records) = 2 * last.before

\* C27: chunks cover the conversation: for every conversation with n > 0
\* messages and 0 < overlap < chunk_size, every message index in [0, n) lies in
\* the range [message_start_idx, message_end_idx) of at least one chunk, so no
\* message is left out of the index.
C27_ChunksCover ==
    (/\ returned.raised = "none"
     /\ NumMessages > 0
     /\ 0 < argOverlap /\ argOverlap < argChunkSize) =>
        \A m \in 0..(NumMessages - 1) :
            \E k \in 1..Len(returned.chunks) :
                /\ returned.chunks[k].message_start_idx <= m
                /\ m < returned.chunks[k].message_end_idx
                /\ returned.chunks[k].messages[m - returned.chunks[k].message_start_idx + 1]
                      = argConversation.messages[m + 1]

C27_Witness ==
    /\ returned.raised = "none"
    /\ NumMessages = MaxMsgs
    /\ argChunkSize = 3
    /\ argOverlap = 2
    /\ Len(returned.chunks) = MaxMsgs - 2
    /\ returned.chunks[Len(returned.chunks)].message_end_idx = MaxMsgs

\* C28: consecutive chunks of one conversation share exactly overlap messages
\* and each chunk adds at least one new message: for chunks k and k+1,
\* message_start_idx(k+1) = message_end_idx(k) - overlap and
\* message_end_idx(k+1) > message_end_idx(k), so no chunk is contained in its
\* predecessor.
C28_ConsecutiveChunks ==
    returned.raised = "none" =>
        \A k \in 1..(Len(returned.chunks) - 1) :
            LET chunk == returned.chunks[k]
                next == returned.chunks[k + 1]
            IN  /\ next.message_start_idx = chunk.message_end_idx - argOverlap
                /\ next.message_end_idx > chunk.message_end_idx
                /\ SubSeq(chunk.messages, Len(chunk.messages) - argOverlap + 1,
                          Len(chunk.messages))
                      = SubSeq(next.messages, 1, argOverlap)
                /\ ~(/\ chunk.message_start_idx <= next.message_start_idx
                     /\ next.message_end_idx <= chunk.message_end_idx)

C28_Witness ==
    /\ returned.raised = "none"
    /\ NumMessages = 6
    /\ argChunkSize = 4
    /\ argOverlap = 2
    /\ Len(returned.chunks) = 2
    /\ returned.chunks[1].message_end_idx = 4
    /\ returned.chunks[2].message_start_idx = 2
    /\ returned.chunks[2].message_end_idx = 6

\* C29: chunk_conversation terminates for every input, including parameters
\* outside the contract: the call returns or raises; with overlap = chunk_size
\* it raises an error (zero step), and with overlap > chunk_size it returns zero
\* chunks for a non-empty conversation.
C29_Terminates ==
    /\ <>(returned # NotCalled)
    /\ [](returned # NotCalled =>
            /\ returned.raised \in {"none", "ValueError"}
            /\ argOverlap = argChunkSize <=>
                  (returned.raised = "ValueError" /\ returned.chunks = <<>>)
            /\ argOverlap > argChunkSize =>
                  (returned.raised = "none" /\ returned.chunks = <<>>))

C29_Witness ==
    /\ returned # NotCalled
    /\ NumMessages = MaxMsgs
    /\ argOverlap = 2
    /\ argChunkSize = 2
    /\ returned.raised = "ValueError"

----------------------------------------------------------------------------
(* Claim about the frame of search and get_stats (checked under Spec) *)

\* what a stored record is to a caller: its id, document and metadata
Visible(records) ==
    {<<r.id, r.document, r.metadata>> : r \in BagToSet(records)}

\* C30: search and get_stats are read-only: for every query, n_results and
\* filter, a call leaves the set of stored records (ids, documents, metadata)
\* and the record count unchanged, and the store's handle too, so an add after
\* any number of searches and stats calls sees what it would have seen
\* without them.
C30_ReadOnly ==
    [][last'.op \in {"search", "stats"} =>
          /\ Visible(db'.records) = Visible(db.records)
          /\ Count(db'.records) = Count(db.records)
          /\ db' = db
          /\ store' = store
          /\ last'.before = Count(db'.records)]_vars

C30_Witness ==
    /\ last.op = "search"
    /\ last.raised = "none"
    /\ Len(last.result) = MaxResults
    /\ last.before = MaxResults + 1
    /\ Count(db.records) = MaxResults + 1

====
